---- MODULE Spec2Model ----
(***************************************************************************)
(* Pedigree store, relationship editor and relatedness-coefficient engine  *)
(* of the pedigree modeller (src/src/lib/dynamic-pedigree.ts, the genetics *)
(* library in src/unnamed/part_003, and the application shell in           *)
(* src/src/App.tsx with the interactive graph of                           *)
(* src/src/components/graph/FamilyGraph.tsx).                              *)
(*                                                                         *)
(* Numbers: every coefficient the program computes here is a finite sum of *)
(* products of powers of two, far inside the 53-bit mantissa of a double,  *)
(* so IEEE arithmetic is exact on them.  They are modelled as dyadic       *)
(* rationals [n, e] standing for n / 2^e, kept normalised.                 *)
(***************************************************************************)
EXTENDS Integers, Sequences, FiniteSets, TLC

VARIABLES
    baseRelationship,   \* dynamic App: useState baseRelationship
    person1Sex,         \* dynamic App: useState person1Sex
    person2Sex,         \* dynamic App: useState person2Sex
    pedigree,           \* dynamic App: useState pedigree (DynamicPedigree)
    rMerges,            \* resolveId: the merges argument
    rId,                \* resolveId: the id argument
    rResolved,          \* resolveId: local variable resolved
    rPc,                \* resolveId: "loop" while in the while loop, "done" after return
    rIters,             \* resolveId: executions of the loop body so far (saturating)
    gArgs,              \* genetics library: the call under test and its arguments
    gRet,               \* genetics library: the value returned, Pending before the call
    oPed,               \* getRelationshipOptions: the pedigree argument
    oId1,               \* getRelationshipOptions: the person1Id argument
    oId2,               \* getRelationshipOptions: the person2Id argument
    oPc,                \* getRelationshipOptions: "call" before the return, "done" after
    oRet,               \* getRelationshipOptions: the option values returned
    sRelationship,      \* scenario App: useState relationship
    sConsanguinityId,   \* scenario App: useState consanguinityId
    sPerson1Sex,        \* scenario App: useState person1Sex
    sPerson2Sex,        \* scenario App: useState person2Sex
    tArgs,              \* template functions: the call under test and its arguments
    tRet,               \* template functions: the value returned, Pending before the call
    store,              \* pedigree store API: the store the caller holds
    given,              \* pedigree store API: the store passed to the last addRelationship
                        \* call, as the caller's reference shows it after the call
    call,               \* pedigree store API: the arguments of the last addRelationship call
    graph,              \* pedigree store API: the last output of pedigreeToGraph(store)
    graphCalls,         \* pedigree store API: "none", "once" or "again": pedigreeToGraph
                        \* calls made on the store since it was last replaced
    pStore,             \* path finder: the store the caller holds
    pArgs,              \* path finder: the last call made on pStore and its arguments
    pRet,               \* path finder: what that call returned
    aStore,             \* getAncestors: the pedigree of the enclosing findAllPaths call
    aParentOf,          \* getAncestors: the Map parentOf that findAllPaths built
    aRoot,              \* getAncestors: the id argument
    aStack,             \* getAncestors: the dfs activations, innermost last, each with
                        \* its current, its depth and its position in the for loop
    aVisited,           \* getAncestors: the Set visited
    aAncestors,         \* getAncestors: the Map ancestors
    aExpanded,          \* getAncestors: the ids passed to visited.add, in order
    aPc                 \* getAncestors: "call", "run" while dfs is active, "done"

vars == <<baseRelationship, person1Sex, person2Sex, pedigree,
          rMerges, rId, rResolved, rPc, rIters, gArgs, gRet,
          oPed, oId1, oId2, oPc, oRet,
          sRelationship, sConsanguinityId, sPerson1Sex, sPerson2Sex,
          tArgs, tRet, store, given, call, graph, graphCalls,
          pStore, pArgs, pRet,
          aStore, aParentOf, aRoot, aStack, aVisited, aAncestors, aExpanded, aPc>>

appVars == <<baseRelationship, person1Sex, person2Sex, pedigree>>
resolveVars == <<rMerges, rId, rResolved, rPc, rIters>>
geneticsVars == <<gArgs, gRet>>
optionVars == <<oPed, oId1, oId2, oPc, oRet>>
scenarioVars == <<sRelationship, sConsanguinityId, sPerson1Sex, sPerson2Sex>>
templateVars == <<tArgs, tRet>>
storeVars == <<store, given, call, graph, graphCalls>>
pathVars == <<pStore, pArgs, pRet>>
traversalVars == <<aStore, aParentOf, aRoot, aStack, aVisited, aAncestors, aExpanded, aPc>>

-----------------------------------------------------------------------------
(* Bounds of the model *)

\* longest declared-relationship log explored
MaxDecl == 2
\* the user clicks among the first MaxClick persons of a template (insertion order)
MaxClick == 3
\* person ids over which arbitrary merge maps are enumerated for resolveId
MaxIds == 3
\* longest consanguinity-factor list passed to getCompoundConsanguinityFactor
MaxFactors == 2
\* persons of a store (the first ones, in insertion order) that are declared
\* related before the path finder is called
MaxPathIds == 4

-----------------------------------------------------------------------------
(* Sentinels for JavaScript values that are not person ids or numbers *)

Undefined == "undefined"          \* Array.prototype.find miss, in place of a person id
Diverges == "diverges"            \* resolveId never returns, in place of a person id
NullRelationship == "null"        \* null of `RelationshipType | null`
Null == [null |-> TRUE]           \* null of `number | null`
Pending == [pending |-> TRUE]     \* a call that has not returned yet

Sexes == {"M", "F"}

Range(s) == {s[i] : i \in 1..Len(s)}

-----------------------------------------------------------------------------
(* Dyadic rationals: [n |-> n, e |-> e] is n / 2^e *)

RECURSIVE Pow2(_)
Pow2(k) == IF k = 0 THEN 1 ELSE 2 * Pow2(k - 1)

RECURSIVE DyNorm(_, _)
DyNorm(n, e) ==
    IF n = 0 THEN [n |-> 0, e |-> 0]
    ELSE IF e > 0 /\ n % 2 = 0 THEN DyNorm(n \div 2, e - 1)
    ELSE [n |-> n, e |-> e]

Dy(n, e) == DyNorm(n, e)
DyZero == Dy(0, 0)
DyOne == Dy(1, 0)

DyMax(a, b) == IF a >= b THEN a ELSE b

DyAdd(x, y) ==
    LET e == DyMax(x.e, y.e)
    IN  DyNorm(x.n * Pow2(e - x.e) + y.n * Pow2(e - y.e), e)

DyNeg(x) == [n |-> 0 - x.n, e |-> x.e]
DySub(x, y) == DyAdd(x, DyNeg(y))
DyMul(x, y) == DyNorm(x.n * y.n, x.e + y.e)
DyHalf(x) == DyNorm(x.n, x.e + 1)
DyLeq(x, y) == DySub(y, x).n >= 0
DyMin(x, y) == IF DyLeq(x, y) THEN x ELSE y
\* Math.pow(0.5, k) for k >= 0
DyPowHalf(k) == Dy(1, k)

-----------------------------------------------------------------------------
(* Genetics library *)

\* type RelationshipType
RelationshipType ==
    {"siblings", "half-siblings", "first-cousins", "second-cousins", "third-cousins",
     "double-first-cousins", "first-cousins-once-removed", "avuncular",
     "grandparent-grandchild", "great-grandparent", "parent-child"}

\* a relationship string outside RelationshipType, as an untyped caller can pass
NotModeled == "not-modeled"

BASE_COEFFICIENTS ==
    [r \in RelationshipType |->
        CASE r = "parent-child" -> Dy(1, 1)
          [] r = "siblings" -> Dy(1, 1)
          [] r = "half-siblings" -> Dy(1, 2)
          [] r = "grandparent-grandchild" -> Dy(1, 2)
          [] r = "avuncular" -> Dy(1, 2)
          [] r = "first-cousins" -> Dy(1, 3)
          [] r = "double-first-cousins" -> Dy(1, 2)
          [] r = "first-cousins-once-removed" -> Dy(1, 4)
          [] r = "great-grandparent" -> Dy(1, 3)
          [] r = "second-cousins" -> Dy(1, 5)
          [] r = "third-cousins" -> Dy(1, 7)]

geneOverlapProbability(r) == r

SexKeys == {"M-M", "M-F", "F-M", "F-F"}

\* the same value for the four sex keys
XRow(v) == [k \in SexKeys |-> v]
\* one value for a male first person, another for a female first person
XRowBySex1(vM, vF) == [k \in SexKeys |-> IF k \in {"M-M", "M-F"} THEN vM ELSE vF]

xLinkedTable ==
    [r \in RelationshipType |->
        CASE r = "parent-child" ->
                [k \in SexKeys |->
                    CASE k = "M-M" -> DyZero
                      [] k = "M-F" -> DyOne
                      [] k = "F-M" -> Dy(1, 1)
                      [] k = "F-F" -> Dy(1, 1)]
          [] r = "siblings" -> XRow(Dy(1, 1))
          [] r = "half-siblings" -> XRow(Dy(1, 1))
          [] r = "grandparent-grandchild" -> XRowBySex1(DyZero, Dy(1, 2))
          [] r = "avuncular" -> XRow(Dy(1, 2))
          [] r = "first-cousins" -> XRow(Dy(1, 3))
          [] r = "double-first-cousins" -> XRow(Dy(1, 2))
          [] r = "first-cousins-once-removed" -> XRow(Dy(1, 4))
          [] r = "great-grandparent" -> XRowBySex1(DyZero, Dy(1, 3))
          [] r = "second-cousins" -> XRow(Dy(1, 5))
          [] r = "third-cousins" -> XRow(Dy(1, 7))]

\* the template string `${sex1}-${sex2}`
SexKey(sex1, sex2) ==
    CASE sex1 = "M" /\ sex2 = "M" -> "M-M"
      [] sex1 = "M" /\ sex2 = "F" -> "M-F"
      [] sex1 = "F" /\ sex2 = "M" -> "F-M"
      [] sex1 = "F" /\ sex2 = "F" -> "F-F"

\* variant of xLinkedCoefficient that degrades an absent entry to 0
xLinkedCoefficientAbsentIsZero(sex1, sex2, relationship) ==
    LET key == SexKey(sex1, sex2)
    IN  IF relationship \in DOMAIN xLinkedTable
           /\ key \in DOMAIN xLinkedTable[relationship]
        THEN xLinkedTable[relationship][key]
        ELSE DyZero

\* xLinkedTable[relationship]?.[key] ?? null
xLinkedCoefficient(sex1, sex2, relationship) ==
    LET key == SexKey(sex1, sex2)
    IN  IF relationship \in DOMAIN xLinkedTable
           /\ key \in DOMAIN xLinkedTable[relationship]
        THEN xLinkedTable[relationship][key]
        ELSE Null

patrilinealRelationships ==
    {"parent-child", "siblings", "grandparent-grandchild", "avuncular", "first-cousins"}

\* variant of yLinkedCoefficient that looks at the sex of the first person only
yLinkedCoefficientFirstSexOnly(sex1, sex2, relationship) ==
    IF sex1 # "M" THEN DyZero
    ELSE IF relationship \in patrilinealRelationships THEN DyOne
    ELSE DyZero

yLinkedCoefficient(sex1, sex2, relationship) ==
    IF sex1 # "M" \/ sex2 # "M" THEN DyZero
    ELSE IF relationship \in patrilinealRelationships THEN DyOne
    ELSE IF relationship = "half-siblings" THEN DyZero
    ELSE DyZero

\* variant of calculateProbabilities that halves the baseline, not the adjusted r
calculateProbabilitiesBaselineF(sex1, sex2, relationship, consanguinityFactor) ==
    LET baseR == BASE_COEFFICIENTS[relationship]
        adjustedR == DyMul(baseR, DyAdd(DyOne, consanguinityFactor))
        F == DyHalf(baseR)
    IN  [coefficientOfRelationship |-> adjustedR,
         geneOverlapProbability |-> geneOverlapProbability(adjustedR),
         inbreedingCoefficient |-> F,
         xLinkedCoefficient |-> xLinkedCoefficient(sex1, sex2, relationship),
         yLinkedCoefficient |-> yLinkedCoefficient(sex1, sex2, relationship),
         baselineR |-> baseR,
         deltaFromBaseline |-> DySub(adjustedR, baseR)]

calculateProbabilities(sex1, sex2, relationship, consanguinityFactor) ==
    LET baseR == BASE_COEFFICIENTS[relationship]
        adjustedR == DyMul(baseR, DyAdd(DyOne, consanguinityFactor))
        F == DyHalf(adjustedR)
    IN  [coefficientOfRelationship |-> adjustedR,
         geneOverlapProbability |-> geneOverlapProbability(adjustedR),
         inbreedingCoefficient |-> F,
         xLinkedCoefficient |-> xLinkedCoefficient(sex1, sex2, relationship),
         yLinkedCoefficient |-> yLinkedCoefficient(sex1, sex2, relationship),
         baselineR |-> baseR,
         deltaFromBaseline |-> DySub(adjustedR, baseR)]

\* variant of getConsanguinityFactor that returns the parents' r, not halved
getConsanguinityFactorUnhalved(parentRelationship) ==
    IF parentRelationship = NullRelationship THEN DyZero
    ELSE IF parentRelationship \in DOMAIN BASE_COEFFICIENTS
    THEN BASE_COEFFICIENTS[parentRelationship]
    ELSE DyZero

\* `BASE_COEFFICIENTS[parentRelationship] || 0`, halved; 0 for null
getConsanguinityFactor(parentRelationship) ==
    IF parentRelationship = NullRelationship THEN DyZero
    ELSE LET parentR == IF parentRelationship \in DOMAIN BASE_COEFFICIENTS
                        THEN BASE_COEFFICIENTS[parentRelationship]
                        ELSE DyZero
         IN  DyHalf(parentR)

GenerationTiers == {"parents", "grandparents", "great-grandparents"}

GENERATION_MULTIPLIERS ==
    [g \in GenerationTiers |->
        CASE g = "parents" -> DyOne
          [] g = "grandparents" -> Dy(1, 1)
          [] g = "great-grandparents" -> Dy(1, 2)]

\* variant of FactorContribution that ignores the generation tier
FactorContributionAnyTier(factor) == getConsanguinityFactor(factor.relationship)

\* one iteration of the loop of getCompoundConsanguinityFactor
FactorContribution(factor) ==
    LET baseF == getConsanguinityFactor(factor.relationship)
        multiplier == IF factor.generation \in DOMAIN GENERATION_MULTIPLIERS
                      THEN GENERATION_MULTIPLIERS[factor.generation]
                      ELSE DyOne
    IN  DyMul(baseF, multiplier)

RECURSIVE CompoundFrom(_, _, _)
CompoundFrom(factors, i, totalFactor) ==
    IF i > Len(factors) THEN totalFactor
    ELSE CompoundFrom(factors, i + 1, DyAdd(totalFactor, FactorContribution(factors[i])))

getCompoundConsanguinityFactor(factors) == CompoundFrom(factors, 1, DyZero)

-----------------------------------------------------------------------------
(* Pedigree store: templates *)

\* one addPerson call (the label only feeds display and is left out)
Person(id, sex, generation) == [id |-> id, sex |-> sex, generation |-> generation]
\* one addEdge call
Edge(parentId, childId) == [parentId |-> parentId, childId |-> childId]

EmptyMap == [k \in {} |-> k]

\* Map.set(k, v) on a copy of m
MapSet(m, k, v) == [x \in (DOMAIN m) \cup {k} |-> IF x = k THEN v ELSE m[x]]

\* The persons Map is kept as the sequence of its entries in insertion order,
\* which is the iteration order of a JavaScript Map.
PersonIds(persons) == {persons[i].id : i \in 1..Len(persons)}

\* persons.get(id)
PersonsGet(persons, id) ==
    IF id \in PersonIds(persons)
    THEN persons[CHOOSE i \in 1..Len(persons) : persons[i].id = id]
    ELSE Undefined

\* persons.set(person.id, person): an existing key keeps its position
PersonsSet(persons, person) ==
    IF person.id \in PersonIds(persons)
    THEN [i \in 1..Len(persons) |-> IF persons[i].id = person.id THEN person ELSE persons[i]]
    ELSE Append(persons, person)

\* the persons Map built by a sequence of addPerson calls
RECURSIVE PersonMapFrom(_, _, _)
PersonMapFrom(calls, i, persons) ==
    IF i > Len(calls) THEN persons
    ELSE PersonMapFrom(calls, i + 1, PersonsSet(persons, calls[i]))

PersonMap(calls) == PersonMapFrom(calls, 1, << >>)

OtherSex(sex) == IF sex = "M" THEN "F" ELSE "M"

\* the addPerson calls of generateBasePedigree, in order
TemplatePersons(baseRel, sex1, sex2) ==
    CASE baseRel \in {"siblings", "half-siblings"} ->
            << Person("p1", sex1, 2), Person("p2", sex2, 2),
               Person("father", "M", 1), Person("mother", "F", 1),
               Person("gf1", "M", 0), Person("gm1", "F", 0),
               Person("gf2", "M", 0), Person("gm2", "F", 0) >>
      [] baseRel = "first-cousins" ->
            << Person("p1", sex1, 2), Person("p2", sex2, 2),
               Person("father1", "M", 1), Person("mother1", "F", 1),
               Person("father2", "M", 1), Person("mother2", "F", 1),
               Person("gf-shared", "M", 0), Person("gm-shared", "F", 0),
               Person("gf-a", "M", 0), Person("gm-a", "F", 0),
               Person("gf-b", "M", 0), Person("gm-b", "F", 0) >>
      [] baseRel = "double-first-cousins" ->
            << Person("p1", sex1, 2), Person("p2", sex2, 2),
               Person("father1", "M", 1), Person("mother1", "F", 1),
               Person("father2", "M", 1), Person("mother2", "F", 1),
               Person("gf1", "M", 0), Person("gm1", "F", 0),
               Person("gf2", "M", 0), Person("gm2", "F", 0) >>
      [] baseRel = "avuncular" ->
            << Person("p1", sex1, 1), Person("p2", sex2, 2),
               Person("sibling", OtherSex(sex1), 1), Person("spouse", OtherSex(sex1), 1),
               Person("gf", "M", 0), Person("gm", "F", 0),
               Person("gf-spouse", "M", 0), Person("gm-spouse", "F", 0) >>
      [] baseRel = "second-cousins" ->
            << Person("p1", sex1, 3), Person("p2", sex2, 3),
               Person("parent1", "M", 2), Person("parent2", "M", 2),
               Person("gp1", "M", 1), Person("gp2", "M", 1),
               Person("ggp-shared", "M", 0) >>
      [] OTHER ->
            << Person("p1", sex1, 2), Person("p2", sex2, 2),
               Person("father", "M", 1), Person("mother", "F", 1) >>

\* the addEdge calls of generateBasePedigree, in order
TemplateEdges(baseRel) ==
    CASE baseRel \in {"siblings", "half-siblings"} ->
            << Edge("father", "p1"), Edge("mother", "p1"),
               Edge("father", "p2"), Edge("mother", "p2"),
               Edge("gf1", "father"), Edge("gm1", "father"),
               Edge("gf2", "mother"), Edge("gm2", "mother") >>
      [] baseRel = "first-cousins" ->
            << Edge("father1", "p1"), Edge("mother1", "p1"),
               Edge("father2", "p2"), Edge("mother2", "p2"),
               Edge("gf-shared", "father1"), Edge("gm-shared", "father1"),
               Edge("gf-shared", "father2"), Edge("gm-shared", "father2"),
               Edge("gf-a", "mother1"), Edge("gm-a", "mother1"),
               Edge("gf-b", "mother2"), Edge("gm-b", "mother2") >>
      [] baseRel = "double-first-cousins" ->
            << Edge("father1", "p1"), Edge("mother1", "p1"),
               Edge("father2", "p2"), Edge("mother2", "p2"),
               Edge("gf1", "father1"), Edge("gm1", "father1"),
               Edge("gf1", "father2"), Edge("gm1", "father2"),
               Edge("gf2", "mother1"), Edge("gm2", "mother1"),
               Edge("gf2", "mother2"), Edge("gm2", "mother2") >>
      [] baseRel = "avuncular" ->
            << Edge("sibling", "p2"), Edge("spouse", "p2"),
               Edge("gf", "p1"), Edge("gm", "p1"),
               Edge("gf", "sibling"), Edge("gm", "sibling"),
               Edge("gf-spouse", "spouse"), Edge("gm-spouse", "spouse") >>
      [] baseRel = "second-cousins" ->
            << Edge("parent1", "p1"), Edge("parent2", "p2"),
               Edge("gp1", "parent1"), Edge("gp2", "parent2"),
               Edge("ggp-shared", "gp1"), Edge("ggp-shared", "gp2") >>
      [] OTHER ->
            << Edge("father", "p1"), Edge("mother", "p1"),
               Edge("father", "p2"), Edge("mother", "p2") >>

\* the body of generateBasePedigree
BuildBasePedigree(baseRel, sex1, sex2) ==
    [persons |-> PersonMap(TemplatePersons(baseRel, sex1, sex2)),
     edges |-> TemplateEdges(baseRel),
     definedRelationships |-> << >>,
     targetPair |-> << "p1", "p2" >>,
     merges |-> EmptyMap]

\* generateBasePedigree is deterministic: its results, computed once
BasePedigrees ==
    [baseRel \in RelationshipType |->
        [sex1 \in Sexes |-> [sex2 \in Sexes |-> BuildBasePedigree(baseRel, sex1, sex2)]]]

generateBasePedigree(baseRel, sex1, sex2) == BasePedigrees[baseRel][sex1][sex2]

-----------------------------------------------------------------------------
(* Pedigree store: merge map, relationship editor, visible graph *)

\* the while loop of resolveId with `fuel` iterations left; a loop that is still
\* inside the map after as many iterations as the map has keys has revisited a
\* key and never leaves it
RECURSIVE ResolveFrom(_, _, _)
ResolveFrom(resolved, merges, fuel) ==
    IF resolved \notin DOMAIN merges THEN resolved
    ELSE IF fuel = 0 THEN Diverges
    ELSE ResolveFrom(merges[resolved], merges, fuel - 1)

resolveId(id, merges) == ResolveFrom(id, merges, Cardinality(DOMAIN merges))

\* pedigree.edges.filter(e => e.childId === personId).map(e => e.parentId)
ParentsOf(ped, personId) ==
    LET own == SelectSeq(ped.edges, LAMBDA e : e.childId = personId)
    IN  [i \in 1..Len(own) |-> own[i].parentId]

\* parents.find(p => pedigree.persons.get(p)?.sex === sex)
FindParentOfSex(ped, parents, sex) ==
    LET hits == {i \in 1..Len(parents) :
                    /\ parents[i] \in PersonIds(ped.persons)
                    /\ PersonsGet(ped.persons, parents[i]).sex = sex}
    IN  IF hits = {} THEN Undefined
        ELSE parents[CHOOSE i \in hits : \A j \in hits : i <= j]

\* if (x1 && x2 && x1 !== x2) merges.set(x2, x1)
MergeInto(merges, keeper, loser) ==
    IF keeper # Undefined /\ loser # Undefined /\ keeper # loser
    THEN MapSet(merges, loser, keeper)
    ELSE merges

\* a variant of the 'siblings' branch that also merges the second sibling into
\* the first
SiblingMergesWithChildren(ped, person1Id, person2Id) ==
    LET parents1 == ParentsOf(ped, person1Id)
        parents2 == ParentsOf(ped, person2Id)
        father1 == FindParentOfSex(ped, parents1, "M")
        father2 == FindParentOfSex(ped, parents2, "M")
        mother1 == FindParentOfSex(ped, parents1, "F")
        mother2 == FindParentOfSex(ped, parents2, "F")
    IN  MergeInto(MergeInto(MergeInto(ped.merges, father1, father2), mother1, mother2),
                  person1Id, person2Id)

\* the 'siblings' branch of addRelationship: the new merge map
SiblingMerges(ped, person1Id, person2Id) ==
    LET parents1 == ParentsOf(ped, person1Id)
        parents2 == ParentsOf(ped, person2Id)
        father1 == FindParentOfSex(ped, parents1, "M")
        father2 == FindParentOfSex(ped, parents2, "M")
        mother1 == FindParentOfSex(ped, parents1, "F")
        mother2 == FindParentOfSex(ped, parents2, "F")
    IN  MergeInto(MergeInto(ped.merges, father1, father2), mother1, mother2)

\* the 'half-siblings' branch of addRelationship: the new merge map
HalfSiblingMerges(ped, person1Id, person2Id) ==
    LET parents1 == ParentsOf(ped, person1Id)
        parents2 == ParentsOf(ped, person2Id)
        father1 == FindParentOfSex(ped, parents1, "M")
        father2 == FindParentOfSex(ped, parents2, "M")
    IN  MergeInto(ped.merges, father1, father2)

\* NodeRelationship['type']
NodeRelationshipType ==
    {"siblings", "half-siblings", "spouse", "first-cousins", "second-cousins", "unrelated"}

\* variant of addRelationship that logs a declaration only the first time
addRelationshipLoggedOnce(ped, person1Id, person2Id, relationshipType) ==
    LET entry == [person1Id |-> person1Id, person2Id |-> person2Id,
                  type |-> relationshipType]
        logged == IF entry \in Range(ped.definedRelationships)
                  THEN ped
                  ELSE [ped EXCEPT !.definedRelationships = Append(@, entry)]
    IN  IF relationshipType = "siblings"
        THEN [logged EXCEPT !.merges = SiblingMerges(ped, person1Id, person2Id)]
        ELSE IF relationshipType = "half-siblings"
        THEN [logged EXCEPT !.merges = HalfSiblingMerges(ped, person1Id, person2Id)]
        ELSE logged

\* variant of addRelationship that merges the fathers of declared first cousins
addRelationshipCousinsMerge(ped, person1Id, person2Id, relationshipType) ==
    LET logged == [ped EXCEPT !.definedRelationships =
                        Append(@, [person1Id |-> person1Id,
                                   person2Id |-> person2Id,
                                   type |-> relationshipType])]
    IN  IF relationshipType = "siblings"
        THEN [logged EXCEPT !.merges = SiblingMerges(ped, person1Id, person2Id)]
        ELSE IF relationshipType \in {"half-siblings", "first-cousins"}
        THEN [logged EXCEPT !.merges = HalfSiblingMerges(ped, person1Id, person2Id)]
        ELSE logged

addRelationship(ped, person1Id, person2Id, relationshipType) ==
    LET logged == [ped EXCEPT !.definedRelationships =
                        Append(@, [person1Id |-> person1Id,
                                   person2Id |-> person2Id,
                                   type |-> relationshipType])]
    IN  IF relationshipType = "siblings"
        THEN [logged EXCEPT !.merges = SiblingMerges(ped, person1Id, person2Id)]
        ELSE IF relationshipType = "half-siblings"
        THEN [logged EXCEPT !.merges = HalfSiblingMerges(ped, person1Id, person2Id)]
        ELSE logged

\* variant of getRelationshipOptions that ignores the generations
getRelationshipOptionsAnyGeneration(ped, person1Id, person2Id) ==
    IF person1Id \notin PersonIds(ped.persons) \/ person2Id \notin PersonIds(ped.persons)
    THEN << >>
    ELSE << "unrelated", "siblings", "half-siblings", "first-cousins", "second-cousins" >>

\* a variant that also offers the sibling types to persons one generation apart
getRelationshipOptionsAdjacentGenerations(ped, person1Id, person2Id) ==
    LET p1 == PersonsGet(ped.persons, person1Id)
        p2 == PersonsGet(ped.persons, person2Id)
    IN  IF person1Id \notin PersonIds(ped.persons) \/ person2Id \notin PersonIds(ped.persons)
        THEN << >>
        ELSE IF p1.generation - p2.generation \in {-1, 0, 1}
        THEN << "unrelated", "siblings", "half-siblings", "first-cousins", "second-cousins" >>
        ELSE << "unrelated" >>

\* the values of the options getRelationshipOptions returns, in order
getRelationshipOptions(ped, person1Id, person2Id) ==
    LET p1 == PersonsGet(ped.persons, person1Id)
        p2 == PersonsGet(ped.persons, person2Id)
    IN  IF person1Id \notin PersonIds(ped.persons) \/ person2Id \notin PersonIds(ped.persons)
        THEN << >>
        ELSE IF p1.generation = p2.generation
        THEN << "unrelated", "siblings", "half-siblings", "first-cousins", "second-cousins" >>
        ELSE << "unrelated" >>

\* some resolveId call made while walking the edges and the log never returns
ResolutionDiverges(ped) ==
    \/ \E i \in 1..Len(ped.edges) :
            \/ resolveId(ped.edges[i].parentId, ped.merges) = Diverges
            \/ resolveId(ped.edges[i].childId, ped.merges) = Diverges
    \/ \E i \in 1..Len(ped.definedRelationships) :
            \/ resolveId(ped.definedRelationships[i].person1Id, ped.merges) = Diverges
            \/ resolveId(ped.definedRelationships[i].person2Id, ped.merges) = Diverges

\* first loop of pedigreeToGraph: the persons that are not keys of the merge map
VisiblePersons(ped) == SelectSeq(ped.persons, LAMBDA p : p.id \notin DOMAIN ped.merges)

\* variant of VisibleEdgesFrom that keeps every resolved edge
RECURSIVE VisibleEdgesKeepingDuplicates(_, _, _)
VisibleEdgesKeepingDuplicates(ped, i, edges) ==
    IF i > Len(ped.edges) THEN edges
    ELSE VisibleEdgesKeepingDuplicates(ped, i + 1,
            Append(edges, Edge(resolveId(ped.edges[i].parentId, ped.merges),
                               resolveId(ped.edges[i].childId, ped.merges))))

\* variant of VisibleEdgesFrom that copies the stored edges without resolving them
RECURSIVE VisibleEdgesUnresolved(_, _, _)
VisibleEdgesUnresolved(ped, i, edges) ==
    IF i > Len(ped.edges) THEN edges
    ELSE LET storedEdge == Edge(ped.edges[i].parentId, ped.edges[i].childId)
             exists == \E k \in 1..Len(edges) : edges[k] = storedEdge
         IN  VisibleEdgesUnresolved(ped, i + 1,
                IF exists THEN edges ELSE Append(edges, storedEdge))

\* second loop of pedigreeToGraph: resolved edges, first occurrence of each pair kept
RECURSIVE VisibleEdgesFrom(_, _, _)
VisibleEdgesFrom(ped, i, edges) ==
    IF i > Len(ped.edges) THEN edges
    ELSE LET resolvedEdge == Edge(resolveId(ped.edges[i].parentId, ped.merges),
                                  resolveId(ped.edges[i].childId, ped.merges))
             exists == \E k \in 1..Len(edges) : edges[k] = resolvedEdge
         IN  VisibleEdgesFrom(ped, i + 1, IF exists THEN edges ELSE Append(edges, resolvedEdge))

VisibleEdges(ped) == VisibleEdgesFrom(ped, 1, << >>)

\* the relationship of a consanguinity link for a declared type
LinkRelationship(type) ==
    IF type = "first-cousins" THEN "first-cousins"
    ELSE IF type = "second-cousins" THEN "second-cousins"
    ELSE IF type = "half-siblings" THEN "half-siblings"
    ELSE "siblings"

\* variant of ConsanguinityLinksFrom that leaves out only the 'unrelated' entries
RECURSIVE ConsanguinityLinksWithSpouses(_, _, _)
ConsanguinityLinksWithSpouses(ped, i, links) ==
    IF i > Len(ped.definedRelationships) THEN links
    ELSE LET rel == ped.definedRelationships[i]
             id1 == resolveId(rel.person1Id, ped.merges)
             id2 == resolveId(rel.person2Id, ped.merges)
         IN  ConsanguinityLinksWithSpouses(ped, i + 1,
                IF rel.type # "unrelated"
                THEN Append(links, [person1Id |-> id1, person2Id |-> id2,
                                    relationship |-> LinkRelationship(rel.type)])
                ELSE links)

\* third loop of pedigreeToGraph: one link per declaration that is neither
\* 'unrelated' nor 'spouse'
RECURSIVE ConsanguinityLinksFrom(_, _, _)
ConsanguinityLinksFrom(ped, i, links) ==
    IF i > Len(ped.definedRelationships) THEN links
    ELSE LET rel == ped.definedRelationships[i]
             id1 == resolveId(rel.person1Id, ped.merges)
             id2 == resolveId(rel.person2Id, ped.merges)
         IN  ConsanguinityLinksFrom(ped, i + 1,
                IF rel.type # "unrelated" /\ rel.type # "spouse"
                THEN Append(links, [person1Id |-> id1, person2Id |-> id2,
                                    relationship |-> LinkRelationship(rel.type)])
                ELSE links)

ConsanguinityLinks(ped) == ConsanguinityLinksFrom(ped, 1, << >>)

\* the FamilyGraph returned when every resolveId call returns
\* variant of pedigreeToGraph that keeps the links of the previous call
pedigreeToGraphRemembering(ped) ==
    [persons |-> VisiblePersons(ped),
     edges |-> VisibleEdges(ped),
     consanguinityLinks |->
        IF graph # Null /\ graph.consanguinityLinks = ConsanguinityLinks(ped)
        THEN graph.consanguinityLinks \o ConsanguinityLinks(ped)
        ELSE ConsanguinityLinks(ped)]

pedigreeToGraph(ped) ==
    [persons |-> VisiblePersons(ped),
     edges |-> VisibleEdges(ped),
     consanguinityLinks |-> ConsanguinityLinks(ped)]

-----------------------------------------------------------------------------
(* Ancestor-path finder and path-based coefficients *)

\* A Map<string, V> kept as the sequence of its entries [key, val] in insertion order
MapKeys(m) == {m[i].key : i \in 1..Len(m)}
MapGet(m, k) == m[CHOOSE i \in 1..Len(m) : m[i].key = k].val
MapPut(m, k, v) ==
    IF k \in MapKeys(m)
    THEN [i \in 1..Len(m) |-> IF m[i].key = k THEN [key |-> k, val |-> v] ELSE m[i]]
    ELSE Append(m, [key |-> k, val |-> v])

\* first loop of findAllPaths: resolved child -> resolved parents, in edge order
RECURSIVE ParentOfFrom(_, _, _)
ParentOfFrom(ped, i, parentOf) ==
    IF i > Len(ped.edges) THEN parentOf
    ELSE LET resolved == resolveId(ped.edges[i].childId, ped.merges)
             parent == resolveId(ped.edges[i].parentId, ped.merges)
             sofar == IF resolved \in MapKeys(parentOf) THEN MapGet(parentOf, resolved) ELSE << >>
         IN  ParentOfFrom(ped, i + 1, MapPut(parentOf, resolved, Append(sofar, parent)))

BuildParentOf(ped) == ParentOfFrom(ped, 1, << >>)

\* dfs(current, depth) of getAncestors, on the state [ancestors, visited];
\* DfsParents is its for loop from the i-th parent on
RECURSIVE Dfs(_, _, _, _)
RECURSIVE DfsParents(_, _, _, _, _)
Dfs(parentOf, current, depth, st) ==
    IF current \in st.visited THEN st
    ELSE LET parents == IF current \in MapKeys(parentOf) THEN MapGet(parentOf, current) ELSE << >>
         IN  DfsParents(parentOf, parents, 1, depth,
                        [st EXCEPT !.visited = @ \cup {current}])

DfsParents(parentOf, parents, i, depth, st) ==
    IF i > Len(parents) THEN st
    ELSE LET parent == parents[i]
             recorded ==
                IF parent \notin MapKeys(st.ancestors) \/ MapGet(st.ancestors, parent) > depth + 1
                THEN [st EXCEPT !.ancestors = MapPut(@, parent, depth + 1)]
                ELSE st
         IN  DfsParents(parentOf, parents, i + 1, depth,
                        Dfs(parentOf, parent, depth + 1, recorded))

getAncestors(ped, parentOf, id) ==
    Dfs(parentOf, resolveId(id, ped.merges), 0, [ancestors |-> << >>, visited |-> {}]).ancestors

\* variant of findAllPaths that emits a path for every ancestor of either
\* target, counting a missing depth as 0
findAllPathsOfEitherTarget(id1, id2, ped) ==
    LET parentOf == BuildParentOf(ped)
        ancestors1 == getAncestors(ped, parentOf, id1)
        ancestors2 == getAncestors(ped, parentOf, id2)
        depthIn(m, k) == IF k \in MapKeys(m) THEN MapGet(m, k) ELSE 0
        anyAncestors == ancestors1 \o SelectSeq(ancestors2, LAMBDA a : a.key \notin MapKeys(ancestors1))
    IN  [i \in 1..Len(anyAncestors) |->
            [ancestor |-> anyAncestors[i].key,
             length |-> depthIn(ancestors1, anyAncestors[i].key)
                        + depthIn(ancestors2, anyAncestors[i].key) + 1]]

\* the paths of findAllPaths as [ancestor, length] in place of an array of
\* `length` copies of the ancestor id
findAllPaths(id1, id2, ped) ==
    LET parentOf == BuildParentOf(ped)
        ancestors1 == getAncestors(ped, parentOf, id1)
        ancestors2 == getAncestors(ped, parentOf, id2)
        commonAncestors == SelectSeq(ancestors1, LAMBDA a : a.key \in MapKeys(ancestors2))
    IN  [i \in 1..Len(commonAncestors) |->
            [ancestor |-> commonAncestors[i].key,
             length |-> commonAncestors[i].val
                        + MapGet(ancestors2, commonAncestors[i].key) + 1]]

\* variant of SumPaths that counts one step less on every path
RECURSIVE SumPathsOneStepShort(_, _, _)
SumPathsOneStepShort(paths, i, r) ==
    IF i > Len(paths) THEN r
    ELSE SumPathsOneStepShort(paths, i + 1, DyAdd(r, DyPowHalf(paths[i].length - 2)))

RECURSIVE SumPaths(_, _, _)
SumPaths(paths, i, r) ==
    IF i > Len(paths) THEN r
    ELSE SumPaths(paths, i + 1, DyAdd(r, DyPowHalf(paths[i].length - 1)))

calculateFromPedigree(ped) ==
    LET paths == findAllPaths(ped.targetPair[1], ped.targetPair[2], ped)
        r == SumPaths(paths, 1, DyZero)
    IN  [coefficientOfRelationship |-> DyMin(r, DyOne),
         inbreedingCoefficient |-> DyHalf(r),
         contributingPaths |-> paths]

-----------------------------------------------------------------------------
(* The dynamic application: App state, its handlers, and the declaration   *)
(* handler of the interactive graph                                         *)

\* values of RELATIONSHIP_OPTIONS, the buttons of the RelationshipSelector
RELATIONSHIP_OPTIONS ==
    {"siblings", "half-siblings", "first-cousins", "double-first-cousins", "second-cousins",
     "third-cousins", "first-cousins-once-removed", "avuncular", "grandparent-grandchild"}

IdleApp ==
    /\ baseRelationship = "first-cousins"
    /\ person1Sex = "M"
    /\ person2Sex = "F"
    /\ pedigree = generateBasePedigree("first-cousins", "M", "F")

\* useState initial values of App
InitApp == IdleApp

\* the render that follows a state update never returns: no later event is handled
Hung == ResolutionDiverges(pedigree)

\* the nodes drawn by the interactive graph that the user clicks
ClickableIds ==
    {pedigree.persons[i].id : i \in {k \in 1..Len(pedigree.persons) : k <= MaxClick}}
        \ (DOMAIN pedigree.merges)

\* `{ ...person, sex }` stored under personId when the person exists
WithSex(ped, personId, sex) ==
    IF personId \in PersonIds(ped.persons)
    THEN [ped EXCEPT !.persons =
            PersonsSet(@, [PersonsGet(ped.persons, personId) EXCEPT !.sex = sex])]
    ELSE ped

handleRelationshipChange(newRelationship) ==
    /\ ~Hung
    /\ baseRelationship' = newRelationship
    /\ pedigree' = generateBasePedigree(newRelationship, person1Sex, person2Sex)
    /\ UNCHANGED <<person1Sex, person2Sex, resolveVars, geneticsVars, optionVars, scenarioVars, templateVars, storeVars, pathVars, traversalVars>>

handlePerson1SexChange(sex) ==
    /\ ~Hung
    /\ person1Sex' = sex
    /\ pedigree' = WithSex(pedigree, pedigree.targetPair[1], sex)
    /\ UNCHANGED <<baseRelationship, person2Sex, resolveVars, geneticsVars, optionVars, scenarioVars, templateVars, storeVars, pathVars, traversalVars>>

handlePerson2SexChange(sex) ==
    /\ ~Hung
    /\ person2Sex' = sex
    /\ pedigree' = WithSex(pedigree, pedigree.targetPair[2], sex)
    /\ UNCHANGED <<baseRelationship, person1Sex, resolveVars, geneticsVars, optionVars, scenarioVars, templateVars, storeVars, pathVars, traversalVars>>

\* variant of SexToggleUpdater that stores 'F' whatever the person's sex is
SexToggleUpdaterToFemale(prev, personId) ==
    IF personId \in PersonIds(prev.persons) THEN WithSex(prev, personId, "F") ELSE prev

\* the updater handlePersonSexToggle passes to setPedigree: the store it returns
SexToggleUpdater(prev, personId) ==
    IF personId \in PersonIds(prev.persons)
    THEN WithSex(prev, personId, OtherSex(PersonsGet(prev.persons, personId).sex))
    ELSE prev

handlePersonSexToggle(personId) ==
    /\ ~Hung
    /\ LET present == personId \in PersonIds(pedigree.persons)
           newSex == OtherSex(PersonsGet(pedigree.persons, personId).sex)
       IN  /\ pedigree' = SexToggleUpdater(pedigree, personId)
           /\ person1Sex' = IF present /\ personId = pedigree.targetPair[1]
                            THEN newSex ELSE person1Sex
           /\ person2Sex' = IF present /\ personId # pedigree.targetPair[1]
                                        /\ personId = pedigree.targetPair[2]
                            THEN newSex ELSE person2Sex
    /\ UNCHANGED <<baseRelationship, resolveVars, geneticsVars, optionVars, scenarioVars, templateVars, storeVars, pathVars, traversalVars>>

\* InteractiveGraph.handleRelationshipSelect on the two selected nodes, for a
\* button of the relationship panel
handleRelationshipSelect(id1, id2, type) ==
    /\ Len(pedigree.definedRelationships) < MaxDecl
    /\ ~Hung
    /\ pedigree' = addRelationship(pedigree, id1, id2, type)
    /\ UNCHANGED <<baseRelationship, person1Sex, person2Sex, resolveVars, geneticsVars, optionVars, scenarioVars, templateVars, storeVars, pathVars, traversalVars>>

\* the Reset Relationships button, rendered while the log is not empty
resetRelationships ==
    /\ Len(pedigree.definedRelationships) > 0
    /\ ~Hung
    /\ pedigree' = generateBasePedigree(baseRelationship, person1Sex, person2Sex)
    /\ UNCHANGED <<baseRelationship, person1Sex, person2Sex, resolveVars, geneticsVars, optionVars, scenarioVars, templateVars, storeVars, pathVars, traversalVars>>

\* useMemo probabilityResult of the dynamic App
probabilityResult ==
    LET result == calculateFromPedigree(pedigree)
        baseR == IF baseRelationship \in DOMAIN BASE_COEFFICIENTS
                    /\ BASE_COEFFICIENTS[baseRelationship] # DyZero
                 THEN BASE_COEFFICIENTS[baseRelationship]
                 ELSE Dy(1, 3)
        id1 == pedigree.targetPair[1]
        id2 == pedigree.targetPair[2]
        both == id1 \in PersonIds(pedigree.persons) /\ id2 \in PersonIds(pedigree.persons)
        sex1 == PersonsGet(pedigree.persons, id1).sex
        sex2 == PersonsGet(pedigree.persons, id2).sex
    IN  [coefficientOfRelationship |-> result.coefficientOfRelationship,
         geneOverlapProbability |-> result.coefficientOfRelationship,
         inbreedingCoefficient |-> result.inbreedingCoefficient,
         xLinkedCoefficient |-> IF both THEN xLinkedCoefficient(sex1, sex2, baseRelationship)
                                ELSE Null,
         yLinkedCoefficient |-> IF both THEN yLinkedCoefficient(sex1, sex2, baseRelationship)
                                ELSE Null,
         baselineR |-> baseR,
         deltaFromBaseline |-> DySub(result.coefficientOfRelationship, baseR)]

Next ==
    \/ \E r \in RELATIONSHIP_OPTIONS : handleRelationshipChange(r)
    \/ \E sex \in Sexes : handlePerson1SexChange(sex)
    \/ \E sex \in Sexes : handlePerson2SexChange(sex)
    \/ \E id \in ClickableIds : handlePersonSexToggle(id)
    \/ \E id1, id2 \in ClickableIds :
            \E type \in Range(getRelationshipOptions(pedigree, id1, id2)) :
                id1 # id2 /\ handleRelationshipSelect(id1, id2, type)
    \/ resetRelationships

-----------------------------------------------------------------------------
(* resolveId, statement by statement, on an arbitrary merge map *)

\* person ids the enumerated merge maps are built from
IdPool == << "father1", "father2", "mother1", "mother2", "gf-a", "gf-b" >>
ResolveIds == {IdPool[i] : i \in {k \in 1..Len(IdPool) : k <= MaxIds}}
\* an id that is no key of any enumerated map
UnknownId == "unknown"

IdleResolve ==
    /\ rMerges = EmptyMap
    /\ rId = UnknownId
    /\ rResolved = UnknownId
    /\ rPc = "done"
    /\ rIters = 0

\* entry of resolveId(id, merges): `let resolved = id`
InitResolve ==
    /\ \E keys \in SUBSET ResolveIds : rMerges \in [keys -> ResolveIds \cup {UnknownId}]
    /\ rId \in ResolveIds \cup {UnknownId}
    /\ rResolved = rId
    /\ rPc = "loop"
    /\ rIters = 0

\* `while (merges.has(resolved)) resolved = merges.get(resolved)`: one iteration;
\* rIters stops counting one past the number of ids
ResolveStep ==
    /\ rPc = "loop"
    /\ rResolved \in DOMAIN rMerges
    /\ rResolved' = rMerges[rResolved]
    /\ rIters' = IF rIters > Cardinality(ResolveIds) THEN rIters ELSE rIters + 1
    /\ UNCHANGED <<rMerges, rId, rPc, appVars, geneticsVars, optionVars, scenarioVars, templateVars, storeVars, pathVars, traversalVars>>

\* the loop condition fails: `return resolved`
ResolveReturn ==
    /\ rPc = "loop"
    /\ rResolved \notin DOMAIN rMerges
    /\ rPc' = "done"
    /\ UNCHANGED <<rMerges, rId, rResolved, rIters, appVars, geneticsVars, optionVars, scenarioVars, templateVars, storeVars, pathVars, traversalVars>>

NextResolve == ResolveStep \/ ResolveReturn

-----------------------------------------------------------------------------
(* The genetics library called on enumerated arguments *)

\* a factor of the list passed to getCompoundConsanguinityFactor
Factors == [generation : GenerationTiers, relationship : RelationshipType]

RECURSIVE SeqsUpTo(_, _)
SeqsUpTo(S, k) ==
    IF k = 0 THEN {<< >>}
    ELSE LET shorter == SeqsUpTo(S, k - 1)
         IN  shorter \cup {Append(s, x) : s \in {t \in shorter : Len(t) = k - 1}, x \in S}

FactorLists == SeqsUpTo(Factors, MaxFactors)

\* the consanguinity factors the application passes to calculateProbabilities
FactorValues == {getCompoundConsanguinityFactor(factors) : factors \in FactorLists}

GeneticsArgs(fn, sex1, sex2, relationship, consanguinityFactor, factors) ==
    [fn |-> fn, sex1 |-> sex1, sex2 |-> sex2, relationship |-> relationship,
     consanguinityFactor |-> consanguinityFactor, factors |-> factors]

IdleGenetics ==
    /\ gArgs = GeneticsArgs("none", "M", "F", "siblings", DyZero, << >>)
    /\ gRet = Pending

InitGenetics ==
    /\ gRet = Pending
    /\ \/ \E factors \in FactorLists :
            gArgs = GeneticsArgs("getCompoundConsanguinityFactor",
                                 "M", "F", "siblings", DyZero, factors)
       \/ \E sex1, sex2 \in Sexes, relationship \in RelationshipType, cf \in FactorValues :
            gArgs = GeneticsArgs("calculateProbabilities",
                                 sex1, sex2, relationship, cf, << >>)
       \/ \E sex1, sex2 \in Sexes, relationship \in RelationshipType \cup {NotModeled} :
            gArgs = GeneticsArgs("xLinkedCoefficient",
                                 sex1, sex2, relationship, DyZero, << >>)
       \/ \E sex1, sex2 \in Sexes, relationship \in RelationshipType \cup {NotModeled} :
            gArgs = GeneticsArgs("yLinkedCoefficient",
                                 sex1, sex2, relationship, DyZero, << >>)

CallGetCompoundConsanguinityFactor ==
    /\ gArgs.fn = "getCompoundConsanguinityFactor"
    /\ gRet = Pending
    /\ gRet' = getCompoundConsanguinityFactor(gArgs.factors)
    /\ UNCHANGED <<gArgs, appVars, resolveVars, optionVars, scenarioVars, templateVars, storeVars, pathVars, traversalVars>>

CallCalculateProbabilities ==
    /\ gArgs.fn = "calculateProbabilities"
    /\ gRet = Pending
    /\ gRet' = calculateProbabilities(gArgs.sex1, gArgs.sex2, gArgs.relationship,
                                      gArgs.consanguinityFactor)
    /\ UNCHANGED <<gArgs, appVars, resolveVars, optionVars, scenarioVars, templateVars, storeVars, pathVars, traversalVars>>

CallXLinkedCoefficient ==
    /\ gArgs.fn = "xLinkedCoefficient"
    /\ gRet = Pending
    /\ gRet' = xLinkedCoefficient(gArgs.sex1, gArgs.sex2, gArgs.relationship)
    /\ UNCHANGED <<gArgs, appVars, resolveVars, optionVars, scenarioVars, templateVars, storeVars, pathVars, traversalVars>>

CallYLinkedCoefficient ==
    /\ gArgs.fn = "yLinkedCoefficient"
    /\ gRet = Pending
    /\ gRet' = yLinkedCoefficient(gArgs.sex1, gArgs.sex2, gArgs.relationship)
    /\ UNCHANGED <<gArgs, appVars, resolveVars, optionVars, scenarioVars, templateVars, storeVars, pathVars, traversalVars>>

NextGenetics ==
    \/ CallGetCompoundConsanguinityFactor
    \/ CallCalculateProbabilities
    \/ CallXLinkedCoefficient
    \/ CallYLinkedCoefficient

-----------------------------------------------------------------------------
(* getRelationshipOptions called on every pair of ids of every template *)

IdleOptions ==
    /\ oPed = Null
    /\ oId1 = UnknownId
    /\ oId2 = UnknownId
    /\ oPc = "done"
    /\ oRet = << >>

\* entry of getRelationshipOptions(pedigree, person1Id, person2Id)
InitOptions ==
    /\ \E baseRel \in RelationshipType, sex1, sex2 \in Sexes :
            oPed = generateBasePedigree(baseRel, sex1, sex2)
    /\ oId1 \in PersonIds(oPed.persons) \cup {UnknownId}
    /\ oId2 \in PersonIds(oPed.persons) \cup {UnknownId}
    /\ oPc = "call"
    /\ oRet = << >>

CallGetRelationshipOptions ==
    /\ oPc = "call"
    /\ oRet' = getRelationshipOptions(oPed, oId1, oId2)
    /\ oPc' = "done"
    /\ UNCHANGED <<oPed, oId1, oId2, appVars, resolveVars, geneticsVars,
                   scenarioVars, templateVars, storeVars, pathVars, traversalVars>>

NextOptions == CallGetRelationshipOptions

-----------------------------------------------------------------------------
(* The scenario application: static templates, consanguinity presets, App   *)
(* state and its handlers                                                   *)

\* createSiblingPedigree(); labels and the motherId/fatherId fields of a person
\* are display data and are left out
createSiblingPedigree ==
    [persons |-> << Person("gf1", "M", 0), Person("gm1", "F", 0),
                    Person("gf2", "M", 0), Person("gm2", "F", 0),
                    Person("father", "M", 1), Person("mother", "F", 1),
                    Person("child1", "M", 2), Person("child2", "F", 2) >>,
     edges |-> << Edge("gf1", "father"), Edge("gm1", "father"),
                  Edge("gf2", "mother"), Edge("gm2", "mother"),
                  Edge("father", "child1"), Edge("mother", "child1"),
                  Edge("father", "child2"), Edge("mother", "child2") >>,
     consanguinityLinks |-> << >>]

createCousinsPedigree ==
    [persons |-> << Person("gf", "M", 0), Person("gm", "F", 0),
                    Person("parent1", "M", 1), Person("parent2", "M", 1),
                    Person("spouse1", "F", 1), Person("spouse2", "F", 1),
                    Person("cousin1", "M", 2), Person("cousin2", "F", 2) >>,
     edges |-> << Edge("gf", "parent1"), Edge("gm", "parent1"),
                  Edge("gf", "parent2"), Edge("gm", "parent2"),
                  Edge("parent1", "cousin1"), Edge("spouse1", "cousin1"),
                  Edge("parent2", "cousin2"), Edge("spouse2", "cousin2") >>,
     consanguinityLinks |-> << >>]

\* the relationships with a case of their own in the two switch statements
CousinCases ==
    {"first-cousins", "double-first-cousins", "second-cousins", "third-cousins",
     "first-cousins-once-removed"}

getPedigreeForRelationship(relationship) ==
    IF relationship \in {"siblings", "half-siblings"} THEN createSiblingPedigree
    ELSE IF relationship \in CousinCases THEN createCousinsPedigree
    ELSE createSiblingPedigree

\* variant of getSelectedPairIds that answers with the sibling ids for every type
getSelectedPairIdsSiblingIds(relationship) == << "child1", "child2" >>

getSelectedPairIds(relationship) ==
    IF relationship \in {"siblings", "half-siblings"} THEN << "child1", "child2" >>
    ELSE IF relationship \in CousinCases THEN << "cousin1", "cousin2" >>
    ELSE << "child1", "child2" >>

Scenario(id, ancestorRelationship, ancestorGeneration) ==
    [id |-> id, ancestorRelationship |-> ancestorRelationship,
     ancestorGeneration |-> ancestorGeneration]

CONSANGUINITY_SCENARIOS ==
    << Scenario("none", "siblings", "parents"),
       Scenario("parents-first-cousins", "first-cousins", "parents"),
       Scenario("parents-second-cousins", "second-cousins", "parents"),
       Scenario("parents-half-siblings", "half-siblings", "parents"),
       Scenario("parents-siblings", "siblings", "parents"),
       Scenario("grandparents-first-cousins", "first-cousins", "grandparents"),
       Scenario("grandparents-siblings", "siblings", "grandparents") >>

\* the option values of the ConsanguinityPanel select
ScenarioIds == {CONSANGUINITY_SCENARIOS[i].id : i \in 1..Len(CONSANGUINITY_SCENARIOS)}

\* CONSANGUINITY_SCENARIOS.find(s => s.id === consanguinityId)
FindScenario(consanguinityId) ==
    LET hits == {i \in 1..Len(CONSANGUINITY_SCENARIOS) :
                    CONSANGUINITY_SCENARIOS[i].id = consanguinityId}
    IN  IF hits = {} THEN Null
        ELSE CONSANGUINITY_SCENARIOS[CHOOSE i \in hits : \A j \in hits : i <= j]

\* useMemo graph of the scenario App
scenarioGraph ==
    LET baseGraph == getPedigreeForRelationship(sRelationship)
        pair == getSelectedPairIds(sRelationship)
        withP1 == IF pair[1] \in PersonIds(baseGraph.persons)
                  THEN PersonsSet(baseGraph.persons,
                                  [PersonsGet(baseGraph.persons, pair[1])
                                      EXCEPT !.sex = sPerson1Sex])
                  ELSE baseGraph.persons
        withP2 == IF pair[2] \in PersonIds(withP1)
                  THEN PersonsSet(withP1, [PersonsGet(withP1, pair[2])
                                              EXCEPT !.sex = sPerson2Sex])
                  ELSE withP1
        scenario == FindScenario(sConsanguinityId)
        links == IF scenario # Null /\ scenario.id # "none"
                    /\ scenario.ancestorGeneration = "parents"
                 THEN << [person1Id |-> "father", person2Id |-> "mother",
                          relationship |-> scenario.ancestorRelationship] >>
                 ELSE << >>
    IN  [persons |-> withP2, edges |-> baseGraph.edges, consanguinityLinks |-> links]

\* the consanguinityFactor computed inside probabilityResult of the scenario App
scenarioConsanguinityFactor ==
    LET scenario == FindScenario(sConsanguinityId)
    IN  IF scenario # Null /\ scenario.id # "none"
        THEN getConsanguinityFactor(scenario.ancestorRelationship)
        ELSE DyZero

\* useMemo probabilityResult of the scenario App
scenarioProbabilityResult ==
    LET pair == getSelectedPairIds(sRelationship)
        persons == scenarioGraph.persons
    IN  IF pair[1] \notin PersonIds(persons) \/ pair[2] \notin PersonIds(persons)
        THEN Null
        ELSE calculateProbabilities(PersonsGet(persons, pair[1]).sex,
                                    PersonsGet(persons, pair[2]).sex,
                                    sRelationship, scenarioConsanguinityFactor)

IdleScenario ==
    /\ sRelationship = "siblings"
    /\ sConsanguinityId = "none"
    /\ sPerson1Sex = "M"
    /\ sPerson2Sex = "F"

\* useState initial values of the scenario App
InitScenario == IdleScenario

setRelationship(relationship) ==
    /\ sRelationship' = relationship
    /\ UNCHANGED <<sConsanguinityId, sPerson1Sex, sPerson2Sex>>
    /\ UNCHANGED <<appVars, resolveVars, geneticsVars, optionVars, templateVars, storeVars, pathVars, traversalVars>>

setConsanguinityId(scenarioId) ==
    /\ sConsanguinityId' = scenarioId
    /\ UNCHANGED <<sRelationship, sPerson1Sex, sPerson2Sex>>
    /\ UNCHANGED <<appVars, resolveVars, geneticsVars, optionVars, templateVars, storeVars, pathVars, traversalVars>>

setPerson1Sex(sex) ==
    /\ sPerson1Sex' = sex
    /\ UNCHANGED <<sRelationship, sConsanguinityId, sPerson2Sex>>
    /\ UNCHANGED <<appVars, resolveVars, geneticsVars, optionVars, templateVars, storeVars, pathVars, traversalVars>>

setPerson2Sex(sex) ==
    /\ sPerson2Sex' = sex
    /\ UNCHANGED <<sRelationship, sConsanguinityId, sPerson1Sex>>
    /\ UNCHANGED <<appVars, resolveVars, geneticsVars, optionVars, templateVars, storeVars, pathVars, traversalVars>>

\* handlePersonSexToggle of the scenario App
scenarioHandlePersonSexToggle(personId) ==
    LET pair == getSelectedPairIds(sRelationship)
    IN  /\ IF personId = pair[1]
           THEN sPerson1Sex' = OtherSex(sPerson1Sex) /\ UNCHANGED sPerson2Sex
           ELSE IF personId = pair[2]
           THEN sPerson2Sex' = OtherSex(sPerson2Sex) /\ UNCHANGED sPerson1Sex
           ELSE UNCHANGED <<sPerson1Sex, sPerson2Sex>>
        /\ UNCHANGED <<sRelationship, sConsanguinityId>>
        /\ UNCHANGED <<appVars, resolveVars, geneticsVars, optionVars, templateVars, storeVars, pathVars, traversalVars>>

NextScenario ==
    \/ \E relationship \in RELATIONSHIP_OPTIONS : setRelationship(relationship)
    \/ \E scenarioId \in ScenarioIds : setConsanguinityId(scenarioId)
    \/ \E sex \in Sexes : setPerson1Sex(sex)
    \/ \E sex \in Sexes : setPerson2Sex(sex)
    \/ \E personId \in PersonIds(scenarioGraph.persons) :
            scenarioHandlePersonSexToggle(personId)

-----------------------------------------------------------------------------
(* The template functions called on every relationship type *)

TemplateArgs(fn, relationship, sex1, sex2) ==
    [fn |-> fn, relationship |-> relationship, sex1 |-> sex1, sex2 |-> sex2]

\* a value a template function returned
ReturnedValue(v) == [value |-> v]

IdleTemplates ==
    /\ tArgs = TemplateArgs("none", "siblings", "M", "F")
    /\ tRet = Pending

InitTemplates ==
    /\ tRet = Pending
    /\ \/ \E relationship \in RelationshipType, sex1, sex2 \in Sexes :
            tArgs = TemplateArgs("generateBasePedigree", relationship, sex1, sex2)
       \/ \E relationship \in RelationshipType \cup {NotModeled} :
            tArgs = TemplateArgs("getPedigreeForRelationship", relationship, "M", "F")
       \/ \E relationship \in RelationshipType \cup {NotModeled} :
            tArgs = TemplateArgs("getSelectedPairIds", relationship, "M", "F")

CallGenerateBasePedigree ==
    /\ tArgs.fn = "generateBasePedigree"
    /\ tRet = Pending
    /\ tRet' = ReturnedValue(generateBasePedigree(tArgs.relationship, tArgs.sex1, tArgs.sex2))
    /\ UNCHANGED <<tArgs, appVars, resolveVars, geneticsVars, optionVars, scenarioVars, storeVars, pathVars, traversalVars>>

CallGetPedigreeForRelationship ==
    /\ tArgs.fn = "getPedigreeForRelationship"
    /\ tRet = Pending
    /\ tRet' = ReturnedValue(getPedigreeForRelationship(tArgs.relationship))
    /\ UNCHANGED <<tArgs, appVars, resolveVars, geneticsVars, optionVars, scenarioVars, storeVars, pathVars, traversalVars>>

CallGetSelectedPairIds ==
    /\ tArgs.fn = "getSelectedPairIds"
    /\ tRet = Pending
    /\ tRet' = ReturnedValue(getSelectedPairIds(tArgs.relationship))
    /\ UNCHANGED <<tArgs, appVars, resolveVars, geneticsVars, optionVars, scenarioVars, storeVars, pathVars, traversalVars>>

NextTemplates ==
    \/ CallGenerateBasePedigree
    \/ CallGetPedigreeForRelationship
    \/ CallGetSelectedPairIds

-----------------------------------------------------------------------------
(* The pedigree store API: addRelationship and pedigreeToGraph called on a  *)
(* store that starts as a template                                          *)

\* the ids a call is made with: the first MaxClick persons of the store
ArgIds(ped) == {ped.persons[i].id : i \in {k \in 1..Len(ped.persons) : k <= MaxClick}}

\* the store passed to addRelationship as the caller sees it after the call:
\* the function writes to the spread copy newPedigree, to a new log array and
\* to a new Map copied from pedigree.merges, never through `pedigree`
\* variant in which addRelationship writes the merge map of its argument
AddRelationshipInputWritten(ped, person1Id, person2Id, relationshipType) ==
    [ped EXCEPT !.merges = addRelationship(ped, person1Id, person2Id, relationshipType).merges]

AddRelationshipInput(ped, person1Id, person2Id, relationshipType) == ped

IdleStore ==
    /\ store = generateBasePedigree("first-cousins", "M", "F")
    /\ given = Null
    /\ call = Null
    /\ graph = Null
    /\ graphCalls = "none"

\* the store is a freshly generated template
InitStore ==
    /\ \E baseRel \in RelationshipType, sex1, sex2 \in Sexes :
            store = generateBasePedigree(baseRel, sex1, sex2)
    /\ given = Null
    /\ call = Null
    /\ graph = Null
    /\ graphCalls = "none"

\* store = addRelationship(store, person1Id, person2Id, relationshipType)
CallAddRelationship(person1Id, person2Id, relationshipType) ==
    /\ Len(store.definedRelationships) < MaxDecl
    /\ store' = addRelationship(store, person1Id, person2Id, relationshipType)
    /\ given' = AddRelationshipInput(store, person1Id, person2Id, relationshipType)
    /\ call' = [person1Id |-> person1Id, person2Id |-> person2Id,
                type |-> relationshipType]
    /\ graph' = Null
    /\ graphCalls' = "none"
    /\ UNCHANGED <<appVars, resolveVars, geneticsVars, optionVars, scenarioVars, templateVars, pathVars, traversalVars>>

\* graph = pedigreeToGraph(store); the call returns only when every resolveId
\* call it makes returns
CallPedigreeToGraph ==
    /\ ~ResolutionDiverges(store)
    /\ graph' = pedigreeToGraph(store)
    /\ graphCalls' = IF graphCalls = "none" THEN "once" ELSE "again"
    /\ UNCHANGED <<store, given, call>>
    /\ UNCHANGED <<appVars, resolveVars, geneticsVars, optionVars, scenarioVars, templateVars, pathVars, traversalVars>>

NextStore ==
    \/ \E person1Id, person2Id \in ArgIds(store), relationshipType \in NodeRelationshipType :
            CallAddRelationship(person1Id, person2Id, relationshipType)
    \/ CallPedigreeToGraph

-----------------------------------------------------------------------------
(* The path finder called on a store that starts as a template and is       *)
(* extended by addRelationship                                              *)

\* the ids addRelationship is called with before the finder runs
PathArgIds(ped) == {ped.persons[i].id : i \in {k \in 1..Len(ped.persons) : k <= MaxPathIds}}

\* the declaration types made on the store: the two that merge and one that
\* only logs
PathDeclarationTypes == {"siblings", "half-siblings", "first-cousins"}

\* the ids the finder is called with: the targets of the store and an id that
\* no store contains
PathTargets(ped) == {ped.targetPair[1], ped.targetPair[2], UnknownId}

IdlePaths ==
    /\ pStore = generateBasePedigree("first-cousins", "M", "F")
    /\ pArgs = Null
    /\ pRet = Null

\* the store is a freshly generated template
InitPaths ==
    /\ \E baseRel \in RelationshipType :
            pStore = generateBasePedigree(baseRel, "M", "F")
    /\ pArgs = Null
    /\ pRet = Null

\* pStore = addRelationship(pStore, person1Id, person2Id, relationshipType)
PathsAddRelationship(person1Id, person2Id, relationshipType) ==
    /\ Len(pStore.definedRelationships) < MaxDecl
    /\ pStore' = addRelationship(pStore, person1Id, person2Id, relationshipType)
    /\ pArgs' = Null
    /\ pRet' = Null
    /\ UNCHANGED <<appVars, resolveVars, geneticsVars, optionVars, scenarioVars,
                   templateVars, storeVars, traversalVars>>

\* findAllPaths(id1, id2, pStore), with the two ancestor maps it built; the
\* call returns only when every resolveId call it makes returns. One call is
\* made on each value of the store.
CallFindAllPaths(id1, id2) ==
    /\ pArgs = Null
    /\ ~ResolutionDiverges(pStore)
    /\ pArgs' = [fn |-> "findAllPaths", id1 |-> id1, id2 |-> id2]
    /\ pRet' = [paths |-> findAllPaths(id1, id2, pStore),
                ancestors1 |-> getAncestors(pStore, BuildParentOf(pStore), id1),
                ancestors2 |-> getAncestors(pStore, BuildParentOf(pStore), id2)]
    /\ UNCHANGED <<pStore, appVars, resolveVars, geneticsVars, optionVars, scenarioVars,
                   templateVars, storeVars, traversalVars>>

\* calculateFromPedigree(pStore), memoized on the store by its caller
CallCalculateFromPedigree ==
    /\ pArgs = Null
    /\ ~ResolutionDiverges(pStore)
    /\ pArgs' = [fn |-> "calculateFromPedigree",
                 id1 |-> pStore.targetPair[1], id2 |-> pStore.targetPair[2]]
    /\ pRet' = calculateFromPedigree(pStore)
    /\ UNCHANGED <<pStore, appVars, resolveVars, geneticsVars, optionVars, scenarioVars,
                   templateVars, storeVars, traversalVars>>

NextPaths ==
    \/ \E person1Id, person2Id \in PathArgIds(pStore),
          relationshipType \in PathDeclarationTypes :
            PathsAddRelationship(person1Id, person2Id, relationshipType)
    \/ \E id1, id2 \in PathTargets(pStore) : CallFindAllPaths(id1, id2)
    \/ CallCalculateFromPedigree

-----------------------------------------------------------------------------
(* getAncestors, statement by statement: the recursion of dfs as a stack of *)
(* activations                                                              *)

\* variant of the visited test that never finds the person
VisitedNever(current, visited) == FALSE

\* visited.has(current)
Visited(current, visited) == current \in visited

\* parentOf.get(current) || []
ParentsIn(parentOf, current) ==
    IF current \in MapKeys(parentOf) THEN MapGet(parentOf, current) ELSE << >>

\* an activation of dfs; i = 0 before the visited test, afterwards the
\* position of the for loop
Activation(current, depth, i) == [current |-> current, depth |-> depth, i |-> i]

\* the stores the traversal runs on: the templates and the templates after
\* one merging declaration
\* (the templates first)
TraversalTemplates ==
    {generateBasePedigree(baseRel, sex1, sex2) :
        baseRel \in RelationshipType, sex1 \in Sexes, sex2 \in {"F"}}

TraversalStores ==
    TraversalTemplates \cup
    UNION {{addRelationship(ped, person1Id, person2Id, type) :
                person1Id \in ArgIds(ped), person2Id \in ArgIds(ped),
                type \in {"siblings", "half-siblings"}} : ped \in TraversalTemplates}

IdleTraversal ==
    /\ aStore = generateBasePedigree("first-cousins", "M", "F")
    /\ aParentOf = << >>
    /\ aRoot = "p1"
    /\ aStack = << >>
    /\ aVisited = {}
    /\ aAncestors = << >>
    /\ aExpanded = << >>
    /\ aPc = "done"

\* getAncestors(aRoot) is about to run inside findAllPaths(_, _, aStore)
InitTraversal ==
    /\ aStore \in TraversalStores
    /\ aParentOf = BuildParentOf(aStore)
    /\ aRoot \in ArgIds(aStore)
    /\ aStack = << >>
    /\ aVisited = {}
    /\ aAncestors = << >>
    /\ aExpanded = << >>
    /\ aPc = "call"

\* dfs(resolveId(id, pedigree.merges), 0)
TraversalStart ==
    /\ aPc = "call"
    /\ ~ResolutionDiverges(aStore)
    /\ aStack' = << Activation(resolveId(aRoot, aStore.merges), 0, 0) >>
    /\ aPc' = "run"
    /\ UNCHANGED <<aStore, aParentOf, aRoot, aVisited, aAncestors, aExpanded>>
    /\ UNCHANGED <<appVars, resolveVars, geneticsVars, optionVars, scenarioVars,
                   templateVars, storeVars, pathVars>>

\* if (visited.has(current)) return; visited.add(current)
DfsEnter ==
    /\ aPc = "run"
    /\ aStack # << >>
    /\ LET top == aStack[Len(aStack)]
       IN  /\ top.i = 0
           /\ IF Visited(top.current, aVisited)
              THEN /\ aStack' = SubSeq(aStack, 1, Len(aStack) - 1)
                   /\ UNCHANGED <<aVisited, aExpanded>>
              ELSE /\ aStack' = [aStack EXCEPT ![Len(aStack)].i = 1]
                   /\ aVisited' = aVisited \cup {top.current}
                   /\ aExpanded' = Append(aExpanded, top.current)
    /\ UNCHANGED <<aStore, aParentOf, aRoot, aAncestors, aPc>>
    /\ UNCHANGED <<appVars, resolveVars, geneticsVars, optionVars, scenarioVars,
                   templateVars, storeVars, pathVars>>

\* one round of `for (const parent of parents)`: record the depth, call
\* dfs(parent, depth + 1); the activation ends when the parents are used up.
\* No chain of activations of distinct persons is longer than the store has
\* persons, plus the one that returns at once.
DfsLoop ==
    /\ aPc = "run"
    /\ aStack # << >>
    /\ LET top == aStack[Len(aStack)]
           parents == ParentsIn(aParentOf, top.current)
       IN  /\ top.i > 0
           /\ IF top.i > Len(parents)
              THEN /\ aStack' = SubSeq(aStack, 1, Len(aStack) - 1)
                   /\ UNCHANGED aAncestors
              ELSE LET parent == parents[top.i]
                   IN  /\ Len(aStack) <= Len(aStore.persons)
                       /\ aAncestors' =
                            IF parent \notin MapKeys(aAncestors)
                                \/ MapGet(aAncestors, parent) > top.depth + 1
                            THEN MapPut(aAncestors, parent, top.depth + 1)
                            ELSE aAncestors
                       /\ aStack' = Append([aStack EXCEPT ![Len(aStack)].i = top.i + 1],
                                           Activation(parent, top.depth + 1, 0))
    /\ UNCHANGED <<aStore, aParentOf, aRoot, aVisited, aExpanded, aPc>>
    /\ UNCHANGED <<appVars, resolveVars, geneticsVars, optionVars, scenarioVars,
                   templateVars, storeVars, pathVars>>

\* return ancestors
TraversalReturn ==
    /\ aPc = "run"
    /\ aStack = << >>
    /\ aPc' = "done"
    /\ UNCHANGED <<aStore, aParentOf, aRoot, aStack, aVisited, aAncestors, aExpanded>>
    /\ UNCHANGED <<appVars, resolveVars, geneticsVars, optionVars, scenarioVars,
                   templateVars, storeVars, pathVars>>

NextTraversal ==
    \/ TraversalStart
    \/ DfsEnter
    \/ DfsLoop
    \/ TraversalReturn

-----------------------------------------------------------------------------
(* Specifications *)

\* the variables of the scenario App, the template functions and the store API
\* while another part of the program runs
IdleLater == IdleScenario /\ IdleTemplates /\ IdleStore /\ IdlePaths /\ IdleTraversal

\* the variables of the dynamic App, resolveId, the genetics library and
\* getRelationshipOptions while another part of the program runs
IdleEarlier == IdleApp /\ IdleResolve /\ IdleGenetics /\ IdleOptions

Init == InitApp /\ IdleResolve /\ IdleGenetics /\ IdleOptions /\ IdleLater
Spec == Init /\ [][Next]_vars

FullInitResolve == IdleApp /\ InitResolve /\ IdleGenetics /\ IdleOptions /\ IdleLater
SpecResolve == FullInitResolve /\ [][NextResolve]_vars

FullInitGenetics == IdleApp /\ IdleResolve /\ InitGenetics /\ IdleOptions /\ IdleLater
SpecGenetics == FullInitGenetics /\ [][NextGenetics]_vars

FullInitOptions == IdleApp /\ IdleResolve /\ IdleGenetics /\ InitOptions /\ IdleLater
SpecOptions == FullInitOptions /\ [][NextOptions]_vars

FullInitScenario ==
    IdleEarlier /\ InitScenario /\ IdleTemplates /\ IdleStore /\ IdlePaths /\ IdleTraversal
SpecScenario == FullInitScenario /\ [][NextScenario]_vars

FullInitTemplates ==
    IdleEarlier /\ IdleScenario /\ InitTemplates /\ IdleStore /\ IdlePaths /\ IdleTraversal
SpecTemplates == FullInitTemplates /\ [][NextTemplates]_vars

FullInitStore ==
    IdleEarlier /\ IdleScenario /\ IdleTemplates /\ InitStore /\ IdlePaths /\ IdleTraversal
SpecStore == FullInitStore /\ [][NextStore]_vars

FullInitPaths ==
    IdleEarlier /\ IdleScenario /\ IdleTemplates /\ IdleStore /\ InitPaths /\ IdleTraversal
SpecPaths == FullInitPaths /\ [][NextPaths]_vars

\* a call that has started keeps running: JavaScript runs getAncestors to
\* completion without interleaving
FullInitTraversal ==
    IdleEarlier /\ IdleScenario /\ IdleTemplates /\ IdleStore /\ IdlePaths /\ InitTraversal
SpecTraversal == FullInitTraversal /\ [][NextTraversal]_vars /\ WF_vars(NextTraversal)

-----------------------------------------------------------------------------
(* Vocabulary of the properties *)

\* ids met by following merge entries from `cur` on, `cur` included
RECURSIVE FollowSet(_, _, _)
FollowSet(merges, cur, seen) ==
    IF cur \in seen THEN seen
    ELSE IF cur \notin DOMAIN merges THEN seen \cup {cur}
    ELSE FollowSet(merges, merges[cur], seen \cup {cur})

\* no id maps back to itself by following merge entries one or more times
AcyclicMerges(merges) ==
    \A id \in DOMAIN merges : id \notin FollowSet(merges, merges[id], {})

\* the step appended one declaration to the log
DeclarationStep ==
    Len(pedigree'.definedRelationships) = Len(pedigree.definedRelationships) + 1

\* the declaration a DeclarationStep appended
Declared == pedigree'.definedRelationships[Len(pedigree'.definedRelationships)]

\* the last declaration of a store with a non-empty log
LastDeclared(ped) == ped.definedRelationships[Len(ped.definedRelationships)]

\* the parents of `child` whose recorded sex is `sex`
ParentsOfSex(ped, child, sex) ==
    {ped.edges[i].parentId : i \in {k \in 1..Len(ped.edges) :
        /\ ped.edges[k].childId = child
        /\ ped.edges[k].parentId \in PersonIds(ped.persons)
        /\ PersonsGet(ped.persons, ped.edges[k].parentId).sex = sex}}

\* ids of the persons of the visible graph
VisibleIds(ped) == PersonIds(pedigreeToGraph(ped).persons)

GenerationOf(ped, id) == PersonsGet(ped.persons, id).generation

FullOptions == {"unrelated", "siblings", "half-siblings", "first-cousins", "second-cousins"}

-----------------------------------------------------------------------------
(* Properties *)

\* C1: in every store reached from a template by declarations the relationship
\* panel offers for two distinct visible persons, the merge map is acyclic.
C1_MergeMapAcyclic == AcyclicMerges(pedigree.merges)

\* C2: resolveId terminates on every merge map over a finite set of ids, a
\* cyclic one included: its loop body runs at most once per id; and for an id
\* without an entry it returns the id itself.
C2_ResolveTerminates ==
    /\ rIters <= Cardinality(ResolveIds)
    /\ (rPc = "done" /\ rId \notin DOMAIN rMerges) => rResolved = rId

\* C3: declaring `siblings` between two persons that each have a father, the two
\* fathers distinct, makes both father ids resolve to one canonical id and
\* leaves exactly one of the two father nodes in the visible graph.
C3_SiblingsMergeFathers ==
    [][ DeclarationStep /\ Declared.type = "siblings" =>
          LET father1 == FindParentOfSex(pedigree, ParentsOf(pedigree, Declared.person1Id), "M")
              father2 == FindParentOfSex(pedigree, ParentsOf(pedigree, Declared.person2Id), "M")
          IN  (father1 # Undefined /\ father2 # Undefined /\ father1 # father2) =>
                /\ resolveId(father1, pedigree'.merges) # Diverges
                /\ resolveId(father1, pedigree'.merges) = resolveId(father2, pedigree'.merges)
                /\ ~ResolutionDiverges(pedigree')
                /\ Cardinality({father1, father2} \cap VisibleIds(pedigree')) = 1
      ]_vars

\* C4: declaring `half-siblings` changes the merge map at most by the entry
\* B's father -> A's father; no entry of a mother of A or B is added or changed,
\* and two mothers that were distinct nodes of the visible graph before the
\* declaration are two distinct nodes of the visible graph after it.
C4_HalfSiblingsFrame ==
    [][ DeclarationStep /\ Declared.type = "half-siblings" =>
          LET A == Declared.person1Id
              B == Declared.person2Id
              mothers == ParentsOfSex(pedigree, A, "F") \cup ParentsOfSex(pedigree, B, "F")
          IN  /\ \/ pedigree'.merges = pedigree.merges
                 \/ \E f1 \in ParentsOfSex(pedigree, A, "M") :
                        \E f2 \in ParentsOfSex(pedigree, B, "M") :
                            pedigree'.merges = MapSet(pedigree.merges, f2, f1)
              /\ \A m \in mothers :
                    /\ m \in DOMAIN pedigree'.merges <=> m \in DOMAIN pedigree.merges
                    /\ m \in DOMAIN pedigree.merges => pedigree'.merges[m] = pedigree.merges[m]
              /\ \A m1, m2 \in mothers :
                    (m1 # m2 /\ {m1, m2} \subseteq VisibleIds(pedigree))
                        => /\ ~ResolutionDiverges(pedigree')
                           /\ {m1, m2} \subseteq VisibleIds(pedigree')
      ]_vars

\* C5: for two persons present in a store, getRelationshipOptions returns
\* exactly the five types unrelated, siblings, half-siblings, first-cousins and
\* second-cousins when their generation values are equal, and exactly
\* `unrelated` when they differ.
C5_OptionsByGeneration ==
    (oPc = "done" /\ {oId1, oId2} \subseteq PersonIds(oPed.persons)) =>
        Range(oRet) =
            IF GenerationOf(oPed, oId1) = GenerationOf(oPed, oId2)
            THEN FullOptions
            ELSE {"unrelated"}

\* C5 witness: the function returned for two persons of different generations
C5_Witness ==
    /\ oPc = "done"
    /\ {oId1, oId2} \subseteq PersonIds(oPed.persons)
    /\ GenerationOf(oPed, oId1) # GenerationOf(oPed, oId2)
    /\ oRet = << "unrelated" >>

\* the archetypes with a documented baseline and a template of their own
BaselineArchetypes ==
    {"siblings", "half-siblings", "first-cousins", "double-first-cousins",
     "avuncular", "second-cousins"}

\* C6: on the freshly generated template of each archetype, with no declaration
\* made, the path-based coefficient of relationship equals the archetype's
\* baseline in BASE_COEFFICIENTS and deltaFromBaseline is 0.
C6_TemplateMatchesBaseline ==
    (Len(pedigree.definedRelationships) = 0 /\ baseRelationship \in BaselineArchetypes) =>
        /\ calculateFromPedigree(pedigree).coefficientOfRelationship
                = BASE_COEFFICIENTS[baseRelationship]
        /\ probabilityResult.deltaFromBaseline = DyZero

\* the call of `fn` has returned
Returned(fn) == gArgs.fn = fn /\ gRet # Pending

\* C7: the result of calculateProbabilities has inbreedingCoefficient equal to
\* half its coefficientOfRelationship, for every relationship type, sex pair
\* and consanguinity factor.
C7_InbreedingIsHalfR ==
    Returned("calculateProbabilities") =>
        /\ gRet.inbreedingCoefficient = DyHalf(gRet.coefficientOfRelationship)
        /\ DyAdd(gRet.inbreedingCoefficient, gRet.inbreedingCoefficient)
                = gRet.coefficientOfRelationship

\* C7 witness: calculateProbabilities returned for a non-zero consanguinity
\* factor, so that the adjusted r differs from the baseline
C7_Witness ==
    /\ Returned("calculateProbabilities")
    /\ gArgs.consanguinityFactor # DyZero
    /\ gRet.coefficientOfRelationship # gRet.baselineR
    /\ gRet.inbreedingCoefficient = DyHalf(gRet.coefficientOfRelationship)

\* the share of a tier as the documentation states it
TierShare(generation) ==
    CASE generation = "parents" -> Dy(1, 0)
      [] generation = "grandparents" -> Dy(1, 1)
      [] generation = "great-grandparents" -> Dy(1, 2)

\* sum over factors[i..] of baseR(relationship)/2 x share(tier)
RECURSIVE ExpectedCompound(_, _)
ExpectedCompound(factors, i) ==
    IF i > Len(factors) THEN DyZero
    ELSE DyAdd(DyMul(DyHalf(BASE_COEFFICIENTS[factors[i].relationship]),
                     TierShare(factors[i].generation)),
               ExpectedCompound(factors, i + 1))

\* C8: getCompoundConsanguinityFactor returns the sum over the list of
\* baseR/2 x tier share; the empty list gives 0, two identical factors give twice
\* the value of one, and one factor at great-grandparents gives a quarter of the
\* same relationship at parents.
C8_CompoundIsWeightedSum ==
    Returned("getCompoundConsanguinityFactor") =>
        LET factors == gArgs.factors
        IN  /\ gRet = ExpectedCompound(factors, 1)
            /\ Len(factors) = 0 => gRet = DyZero
            /\ (Len(factors) = 2 /\ factors[1] = factors[2]) =>
                    LET single == getCompoundConsanguinityFactor(<< factors[1] >>)
                    IN  gRet = DyAdd(single, single)
            /\ (Len(factors) = 1 /\ factors[1].generation = "great-grandparents") =>
                    LET atParents == [factors[1] EXCEPT !.generation = "parents"]
                    IN  DyAdd(DyAdd(gRet, gRet), DyAdd(gRet, gRet))
                            = getCompoundConsanguinityFactor(<< atParents >>)

\* C8 witness: the function returned for two identical factors at a tier whose
\* multiplier is not 1
C8_Witness ==
    /\ Returned("getCompoundConsanguinityFactor")
    /\ Len(gArgs.factors) = 2
    /\ gArgs.factors[1] = gArgs.factors[2]
    /\ gArgs.factors[1].generation = "great-grandparents"
    /\ gRet # DyZero

\* C9: yLinkedCoefficient returns 0 when either person is female; for two males
\* it returns 1 exactly for parent-child, siblings, grandparent-grandchild,
\* avuncular and first-cousins, and 0 otherwise; it never returns null.
C9_YLinked ==
    Returned("yLinkedCoefficient") =>
        /\ gRet # Null
        /\ gRet = IF /\ gArgs.sex1 = "M"
                     /\ gArgs.sex2 = "M"
                     /\ gArgs.relationship \in
                            {"parent-child", "siblings", "grandparent-grandchild",
                             "avuncular", "first-cousins"}
                  THEN DyOne
                  ELSE DyZero

\* C9 witness: the function returned 0 for a patrilineal type because the
\* second person is female
C9_Witness ==
    /\ Returned("yLinkedCoefficient")
    /\ gArgs.sex1 = "M"
    /\ gArgs.sex2 = "F"
    /\ gArgs.relationship = "first-cousins"
    /\ gRet = DyZero

\* C10: xLinkedCoefficient returns the table entry of (relationship, sex1-sex2)
\* when there is one and null, not 0, when there is none; the parent-child
\* entries are M-M 0, M-F 1, F-M 1/2, F-F 1/2.
C10_XLinked ==
    Returned("xLinkedCoefficient") =>
        LET key == SexKey(gArgs.sex1, gArgs.sex2)
        IN  /\ gArgs.relationship \in DOMAIN xLinkedTable =>
                    gRet = xLinkedTable[gArgs.relationship][key]
            /\ gArgs.relationship \notin DOMAIN xLinkedTable =>
                    gRet = Null /\ gRet # DyZero
            /\ gArgs.relationship = "parent-child" =>
                    gRet = CASE key = "M-M" -> DyZero
                             [] key = "M-F" -> DyOne
                             [] key = "F-M" -> Dy(1, 1)
                             [] key = "F-F" -> Dy(1, 1)

\* C10 witness: the function returned null for a relationship without a table
\* entry
C10_Witness ==
    /\ Returned("xLinkedCoefficient")
    /\ gArgs.relationship \notin DOMAIN xLinkedTable
    /\ gRet = Null

\* C11: for siblings with the scenario 'Parents are 1st Cousins' the consanguinity
\* factor is 0.0625, from getConsanguinityFactor and from
\* getCompoundConsanguinityFactor with that one factor at tier parents, and
\* calculateProbabilities yields r 0.53125, F 0.265625, baseline 0.5 and delta
\* 0.03125.
C11_SiblingsOfFirstCousins ==
    (sRelationship = "siblings" /\ sConsanguinityId = "parents-first-cousins") =>
        LET scenario == FindScenario(sConsanguinityId)
            compound == getCompoundConsanguinityFactor(
                            << [generation |-> scenario.ancestorGeneration,
                                relationship |-> scenario.ancestorRelationship] >>)
            viaCompound == calculateProbabilities(sPerson1Sex, sPerson2Sex,
                                                  sRelationship, compound)
        IN  /\ scenario.ancestorRelationship = "first-cousins"
            /\ scenario.ancestorGeneration = "parents"
            /\ scenarioConsanguinityFactor = Dy(1, 4)
            /\ compound = Dy(1, 4)
            /\ scenarioProbabilityResult # Null
            /\ \A result \in {scenarioProbabilityResult, viaCompound} :
                    /\ result.coefficientOfRelationship = Dy(17, 5)
                    /\ result.inbreedingCoefficient = Dy(17, 6)
                    /\ result.baselineR = Dy(1, 1)
                    /\ result.deltaFromBaseline = Dy(1, 5)

\* C11 witness: the scenario App shows siblings whose parents are first cousins
C11_Witness ==
    /\ sRelationship = "siblings"
    /\ sConsanguinityId = "parents-first-cousins"
    /\ scenarioProbabilityResult # Null
    /\ scenarioProbabilityResult.coefficientOfRelationship = Dy(17, 5)

\* the id at the end of the merge chain that starts at `id`
Canonical(merges, id) == CHOOSE x \in FollowSet(merges, id, {}) : x \notin DOMAIN merges

\* the store's edges with both endpoints canonical, duplicates kept
RECURSIVE CanonicalEdges(_, _)
CanonicalEdges(ped, n) ==
    IF n = 0 THEN << >>
    ELSE Append(CanonicalEdges(ped, n - 1),
                Edge(Canonical(ped.merges, ped.edges[n].parentId),
                     Canonical(ped.merges, ped.edges[n].childId)))

\* positions of `edges` that hold the first occurrence of their pair
FirstOccurrences(edges) ==
    {i \in 1..Len(edges) : \A j \in 1..(i - 1) : edges[j] # edges[i]}

\* C12: for a store with an acyclic merge map, the visible graph has as persons
\* exactly the persons that are not keys of the merge map, and as edges the
\* store's edges with both endpoints canonical, each pair once, in the order of
\* their first occurrence.
C12_VisibleGraph ==
    (graphCalls # "none" /\ AcyclicMerges(store.merges)) =>
        LET canonical == CanonicalEdges(store, Len(store.edges))
            first == FirstOccurrences(canonical)
        IN  /\ Range(graph.persons)
                    = {p \in Range(store.persons) : p.id \notin DOMAIN store.merges}
            /\ \A i, j \in 1..Len(graph.persons) :
                    i # j => graph.persons[i].id # graph.persons[j].id
            /\ Len(graph.edges) = Cardinality(first)
            /\ \A i \in first :
                    graph.edges[Cardinality({j \in first : j <= i})] = canonical[i]
            /\ \A i, j \in 1..Len(graph.edges) : i # j => graph.edges[i] # graph.edges[j]

\* C12 witness: pedigreeToGraph returned for a store whose merges hide a person
\* and collapse two edges into one
C12_Witness ==
    /\ graphCalls # "none"
    /\ AcyclicMerges(store.merges)
    /\ Len(graph.persons) < Len(store.persons)
    /\ Len(graph.edges) < Len(store.edges)

\* the entries of the log that produce a link
LinkingEntries(ped) ==
    SelectSeq(ped.definedRelationships, LAMBDA rel : rel.type \notin {"unrelated", "spouse"})

\* C13: the visible graph has one consanguinity link per log entry whose type
\* is neither unrelated nor spouse, in log order, with canonical endpoints and
\* with the declared type for first-cousins, second-cousins and half-siblings,
\* and siblings for any other type.
C13_LinksFollowLog ==
    graphCalls # "none" =>
        LET entries == LinkingEntries(store)
        IN  /\ Len(graph.consanguinityLinks) = Len(entries)
            /\ \A k \in 1..Len(entries) :
                    /\ graph.consanguinityLinks[k].person1Id
                            = Canonical(store.merges, entries[k].person1Id)
                    /\ graph.consanguinityLinks[k].person2Id
                            = Canonical(store.merges, entries[k].person2Id)
                    /\ graph.consanguinityLinks[k].relationship =
                            IF entries[k].type \in {"first-cousins", "second-cousins",
                                                    "half-siblings"}
                            THEN entries[k].type
                            ELSE "siblings"

\* C13 witness: pedigreeToGraph returned for a log with a spouse entry, which
\* gives no link, followed by a siblings entry whose link has a merged endpoint
C13_Witness ==
    /\ graphCalls # "none"
    /\ Len(store.definedRelationships) = 2
    /\ store.definedRelationships[1].type = "spouse"
    /\ store.definedRelationships[2].type = "siblings"
    /\ Len(graph.consanguinityLinks) = 1
    /\ store.merges # EmptyMap

\* a step that is a call of addRelationship; call' holds its arguments
AddRelationshipStep == graphCalls' = "none" /\ call' # Null

\* a step that is a call of pedigreeToGraph on a store already converted
RepeatedGraphStep == graphCalls # "none" /\ graphCalls' = "again"

\* C14: the log is append-only: every call of addRelationship, whatever the
\* type and the pair, duplicates included, returns the previous log with
\* exactly one new entry (A, B, type) at the end.
C14_LogAppendOnly ==
    [][AddRelationshipStep =>
        /\ Len(store'.definedRelationships) = Len(store.definedRelationships) + 1
        /\ \A i \in 1..Len(store.definedRelationships) :
                store'.definedRelationships[i] = store.definedRelationships[i]
        /\ store'.definedRelationships[Len(store'.definedRelationships)] = call'
      ]_vars

\* C14 witness: the same declaration was made twice and is logged twice
C14_Witness ==
    /\ call # Null
    /\ Len(store.definedRelationships) = 2
    /\ store.definedRelationships[1] = call
    /\ store.definedRelationships[2] = call

\* C15: a call of addRelationship with a type other than siblings and
\* half-siblings leaves the merge map unchanged, so the visible persons and the
\* visible edges are the same before and after.
C15_OnlySiblingTypesMerge ==
    [][(AddRelationshipStep /\ call'.type \notin {"siblings", "half-siblings"}) =>
        /\ store'.merges = store.merges
        /\ ResolutionDiverges(store') = ResolutionDiverges(store)
        /\ ~ResolutionDiverges(store) =>
                /\ VisiblePersons(store') = VisiblePersons(store)
                /\ VisibleEdges(store') = VisibleEdges(store)
      ]_vars

\* C15 witness: a first-cousins declaration made on a store that already has merges
C15_Witness ==
    /\ call # Null
    /\ call.type = "first-cousins"
    /\ store.merges # EmptyMap
    /\ Len(store.definedRelationships) = 2
    /\ store.definedRelationships[1].type = "siblings"

TemplateReturned(fn) == tArgs.fn = fn /\ tRet # Pending

\* C17 as stated: for every relationship type, both ids of getSelectedPairIds
\* are ids of persons of the template created for that type, by
\* generateBasePedigree as well as by getPedigreeForRelationship.
C17_PairIdsInEveryTemplate ==
    (TemplateReturned("generateBasePedigree") \/ TemplateReturned("getPedigreeForRelationship")) =>
        \A k \in 1..2 :
            getSelectedPairIds(tArgs.relationship)[k] \in PersonIds(tRet.value.persons)

\* C17 amended: both ids of getSelectedPairIds(T) are ids of persons of the
\* template getPedigreeForRelationship(T); the store of generateBasePedigree
\* names its targets itself, in targetPair, and those ids are persons of it.
C17_PairIdsInOwnTemplate ==
    /\ TemplateReturned("getSelectedPairIds") =>
            /\ tRet.value[1] # tRet.value[2]
            /\ \A k \in 1..2 :
                    tRet.value[k]
                        \in PersonIds(getPedigreeForRelationship(tArgs.relationship).persons)
    /\ TemplateReturned("getPedigreeForRelationship") =>
            \A k \in 1..2 :
                getSelectedPairIds(tArgs.relationship)[k] \in PersonIds(tRet.value.persons)
    /\ TemplateReturned("generateBasePedigree") =>
            /\ tRet.value.targetPair = << "p1", "p2" >>
            /\ \A k \in 1..2 : tRet.value.targetPair[k] \in PersonIds(tRet.value.persons)

\* C17 witness: the lookup returned the cousin ids for a cousin type
C17_Witness ==
    /\ TemplateReturned("getSelectedPairIds")
    /\ tArgs.relationship = "first-cousins"
    /\ tRet.value = << "cousin1", "cousin2" >>

\* the persons of `ped` that an edge names as parent of `childId`
TemplateParents(ped, childId) ==
    {p \in Range(ped.persons) :
        \E e \in Range(ped.edges) : e.parentId = p.id /\ e.childId = childId}

\* C20: in every template of generateBasePedigree, whatever the archetype and
\* the target sexes, each person has at most two parents and no person has two
\* parents of the same sex.
C20_ParentsOnePerSex ==
    TemplateReturned("generateBasePedigree") =>
        \A child \in Range(tRet.value.persons) :
            LET parents == TemplateParents(tRet.value, child.id)
            IN  /\ Cardinality(parents) <= 2
                /\ \A a, b \in parents : a.id # b.id => a.sex # b.sex

\* no node of `nodes` is its own ancestor along `edges`: the nodes without a
\* child among the remaining ones are removed until none is left
RECURSIVE NoCycleAmong(_, _)
NoCycleAmong(edges, nodes) ==
    LET childless == {n \in nodes :
                        \A e \in edges : e.parentId = n => e.childId \notin nodes}
    IN  IF nodes = {} THEN TRUE
        ELSE IF childless = {} THEN FALSE
        ELSE NoCycleAmong(edges, nodes \ childless)

\* C19: in every store obtained from a template by addRelationship calls on
\* any two of its persons with any type, the parent-child edges with both
\* endpoints resolved through the merge map contain no cycle, and no resolved
\* edge has the same person as parent and child.
C19_ResolvedEdgesAcyclic ==
    ~ResolutionDiverges(store) =>
        LET resolved == Range(CanonicalEdges(store, Len(store.edges)))
        IN  /\ \A e \in resolved : e.parentId # e.childId
            /\ NoCycleAmong(resolved, {e.parentId : e \in resolved}
                                        \cup {e.childId : e \in resolved})

\* the resolved, deduplicated parent edges of `childId` in the visible graph
VisibleParentEdges(ped, childId) ==
    {e \in Range(VisibleEdges(ped)) : e.childId = childId}

\* C21: in the visible graph of every store reached from a template by
\* declarations that getRelationshipOptions offers, every person has at most
\* two resolved, deduplicated parent edges.
C21_AtMostTwoParents ==
    ~Hung =>
        \A child \in Range(VisiblePersons(pedigree)) :
            Cardinality(VisibleParentEdges(pedigree, child.id)) <= 2

\* the parent-child edges of a store with both endpoints canonical
ResolvedEdgeSet(ped) == Range(CanonicalEdges(ped, Len(ped.edges)))

\* the persons an edge of `edges` names
EdgeNodes(edges) == {e.parentId : e \in edges} \cup {e.childId : e \in edges}

\* the parents, along `edges`, of the persons in `nodes`
UpFrom(edges, nodes) == {e.parentId : e \in {x \in edges : x.childId \in nodes}}

\* the least number of parent edges, at least one, on an upward path from
\* `root` to `ancestor`; 0 when there is no such path
RECURSIVE MinDepthFrom(_, _, _, _, _)
MinDepthFrom(edges, frontier, ancestor, depth, limit) ==
    IF depth > limit \/ frontier = {} THEN 0
    ELSE IF ancestor \in frontier THEN depth
    ELSE MinDepthFrom(edges, UpFrom(edges, frontier), ancestor, depth + 1, limit)

MinDepth(edges, root, ancestor) ==
    MinDepthFrom(edges, UpFrom(edges, {root}), ancestor, 1, Cardinality(edges))

\* the last call on pStore was a call of `fn`, and it has returned
PathsReturned(fn) == pArgs # Null /\ pArgs.fn = fn

\* `recorded` holds, for the traversal root `id`, exactly the ancestors of
\* the root, each with its least depth
DepthsAreMinimal(ped, id, recorded) ==
    LET edges == ResolvedEdgeSet(ped)
        root == Canonical(ped.merges, id)
    IN  \A a \in EdgeNodes(edges) :
            LET least == MinDepth(edges, root, a)
            IN  IF least = 0 THEN a \notin MapKeys(recorded)
                ELSE a \in MapKeys(recorded) /\ MapGet(recorded, a) = least

\* C22: on a store whose resolved edge set is acyclic, the depth the path
\* finder records for each ancestor of a target is the least number of parent
\* edges on an upward path from the target to that ancestor, and the path of
\* a common ancestor has as many steps as the two least depths together.
C22_DepthsAreShortest ==
    (PathsReturned("findAllPaths")
        /\ NoCycleAmong(ResolvedEdgeSet(pStore), EdgeNodes(ResolvedEdgeSet(pStore)))) =>
        /\ DepthsAreMinimal(pStore, pArgs.id1, pRet.ancestors1)
        /\ DepthsAreMinimal(pStore, pArgs.id2, pRet.ancestors2)
        /\ \A k \in 1..Len(pRet.paths) :
                pRet.paths[k].length - 1 =
                    MinDepth(ResolvedEdgeSet(pStore),
                             Canonical(pStore.merges, pArgs.id1), pRet.paths[k].ancestor)
                    + MinDepth(ResolvedEdgeSet(pStore),
                               Canonical(pStore.merges, pArgs.id2), pRet.paths[k].ancestor)

\* C23: the path finder returns an empty path sequence whenever either target
\* id is not a person of the store, so the path-based coefficient of
\* relationship and inbreeding coefficient are both 0 then; the call returns
\* normally.
C23_AbsentTargetNoPaths ==
    (PathsReturned("findAllPaths")
        /\ (pArgs.id1 \notin PersonIds(pStore.persons)
                \/ pArgs.id2 \notin PersonIds(pStore.persons))) =>
        LET r == SumPaths(pRet.paths, 1, DyZero)
        IN  /\ pRet.paths = << >>
            /\ DyMin(r, DyOne) = DyZero
            /\ DyHalf(r) = DyZero

\* C23 witness: the finder returned no path for an unknown id and a target
\* that has ancestors in a store with merges
C23_Witness ==
    /\ PathsReturned("findAllPaths")
    /\ pArgs.id1 = UnknownId
    /\ pArgs.id2 = pStore.targetPair[2]
    /\ pRet.ancestors2 # << >>
    /\ pRet.paths = << >>
    /\ pStore.merges # EmptyMap

\* C24: the upward traversal of the path finder terminates on every store
\* with an acyclic merge map, also when the resolved parent-child edges
\* contain a cycle, and expands each person at most once per traversal root.
C24_TraversalTerminates ==
    /\ [](\A i, j \in 1..Len(aExpanded) : i # j => aExpanded[i] # aExpanded[j])
    /\ <>(aPc = "done")

\* C24 witness: the traversal returned on a store in which an expanded person
\* is its own parent, with the ancestors that getAncestors computes
C24_Witness ==
    /\ aPc = "done"
    /\ aExpanded # << >>
    /\ AcyclicMerges(aStore.merges)
    /\ \E e \in ResolvedEdgeSet(aStore) :
            e.parentId = e.childId /\ e.childId \in Range(aExpanded)
    /\ aAncestors = getAncestors(aStore, aParentOf, aRoot)

\* C25: merges are never undone: two person ids that resolve to the same
\* canonical id in a store resolve to the same canonical id in every store
\* obtained from it by further addRelationship calls.
C25_MergesNeverUndone ==
    [][(AddRelationshipStep /\ ~ResolutionDiverges(store) /\ ~ResolutionDiverges(store')) =>
        \A id \in PersonIds(store.persons) :
            Canonical(store'.merges, id)
                = Canonical(store'.merges, Canonical(store.merges, id))
      ]_vars

\* the path sum of calculateFromPedigree before it is capped, recomputed from
\* the paths the call returned: one half to the power of the steps of each
RECURSIVE UncappedR(_, _)
UncappedR(paths, n) ==
    IF n = 0 THEN DyZero
    ELSE DyAdd(UncappedR(paths, n - 1), DyPowHalf(paths[n].length - 1))

\* C26: in every store reached from a template whose merge map is acyclic,
\* calculateFromPedigree returns an inbreedingCoefficient that is exactly half
\* of coefficientOfRelationship: the uncapped path sum never exceeds 1.
C26_InbreedingIsHalfOfCapped ==
    (PathsReturned("calculateFromPedigree") /\ AcyclicMerges(pStore.merges)) =>
        /\ pRet.inbreedingCoefficient = DyHalf(pRet.coefficientOfRelationship)
        /\ DyLeq(UncappedR(pRet.contributingPaths, Len(pRet.contributingPaths)), DyOne)
        /\ pRet.coefficientOfRelationship
                = UncappedR(pRet.contributingPaths, Len(pRet.contributingPaths))

\* C26 witness: calculateFromPedigree returned for a store with merges whose
\* targets are related by more than three quarters
C26_Witness ==
    /\ PathsReturned("calculateFromPedigree")
    /\ pStore.merges # EmptyMap
    /\ AcyclicMerges(pStore.merges)
    /\ pRet.coefficientOfRelationship # Dy(3, 2)
    /\ DyLeq(Dy(3, 2), pRet.coefficientOfRelationship)

\* C27: in every store reached from a template by declarations that
\* getRelationshipOptions offers and by sex toggles, every merge entry maps a
\* person to a different person of the same generation, and so every resolved
\* parent-child edge goes from a person of generation g to one of generation
\* g + 1.
C27_MergesKeepGeneration ==
    /\ \A id \in DOMAIN pedigree.merges :
            /\ id \in PersonIds(pedigree.persons)
            /\ pedigree.merges[id] \in PersonIds(pedigree.persons)
            /\ pedigree.merges[id] # id
            /\ GenerationOf(pedigree, pedigree.merges[id]) = GenerationOf(pedigree, id)
    /\ ~Hung =>
            \A e \in ResolvedEdgeSet(pedigree) :
                GenerationOf(pedigree, e.childId) = GenerationOf(pedigree, e.parentId) + 1

\* C27 witness: after a sex toggle and a declaration the store has a merge
\* entry and its edges resolve
C27_Witness ==
    /\ pedigree.merges # EmptyMap
    /\ ~Hung
    /\ \E i \in 1..Len(pedigree.persons) :
            /\ pedigree.persons[i].id \notin {pedigree.targetPair[1], pedigree.targetPair[2]}
            /\ pedigree.persons[i]
                    # generateBasePedigree(baseRelationship, person1Sex, person2Sex).persons[i]
    /\ \E e \in ResolvedEdgeSet(pedigree) :
            \E i \in 1..Len(pedigree.edges) :
                pedigree.edges[i].childId = e.childId /\ pedigree.edges[i].parentId # e.parentId

C29_GraphIsClosed ==
    (graphCalls # "none" /\ AcyclicMerges(store.merges)) =>
        /\ \A k \in 1..Len(graph.edges) :
                /\ graph.edges[k].parentId \in PersonIds(graph.persons)
                /\ graph.edges[k].childId \in PersonIds(graph.persons)
        /\ \A k \in 1..Len(graph.consanguinityLinks) :
                /\ graph.consanguinityLinks[k].person1Id \in PersonIds(graph.persons)
                /\ graph.consanguinityLinks[k].person2Id \in PersonIds(graph.persons)

\* C29 witness: pedigreeToGraph returned for a store with an acyclic merge map
\* in which a stored edge and a logged declaration both name a person that a
\* merge has hidden
C29_Witness ==
    /\ graphCalls # "none"
    /\ AcyclicMerges(store.merges)
    /\ \E i \in 1..Len(store.edges) : store.edges[i].parentId \in DOMAIN store.merges
    /\ \E i \in 1..Len(store.definedRelationships) :
            /\ store.definedRelationships[i].type \notin {"unrelated", "spouse"}
            /\ store.definedRelationships[i].person1Id \in DOMAIN store.merges
    /\ Len(graph.consanguinityLinks) > 0
    /\ Len(graph.persons) < Len(store.persons)

\* the store differs from `before` in nothing but the sex of personId
OnlySexOfChanged(before, after, personId) ==
    /\ after.edges = before.edges
    /\ after.merges = before.merges
    /\ after.definedRelationships = before.definedRelationships
    /\ after.targetPair = before.targetPair
    /\ Len(after.persons) = Len(before.persons)
    /\ \A i \in 1..Len(before.persons) :
            IF before.persons[i].id = personId
            THEN after.persons[i] = [before.persons[i] EXCEPT !.sex = OtherSex(@)]
            ELSE after.persons[i] = before.persons[i]

\* C30: after any sequence of commands of the dynamic application the sex the
\* store records for each target equals the tracked person1Sex / person2Sex,
\* and toggling the sex of a person twice gives back the store it started
\* from: one toggle changes the sex of that person and nothing else, the
\* second restores it.
C30_SexesTrackedAndToggleInvolutive ==
    /\ PersonsGet(pedigree.persons, pedigree.targetPair[1]).sex = person1Sex
    /\ PersonsGet(pedigree.persons, pedigree.targetPair[2]).sex = person2Sex
    /\ \A id \in PersonIds(pedigree.persons) :
            /\ OnlySexOfChanged(pedigree, SexToggleUpdater(pedigree, id), id)
            /\ SexToggleUpdater(SexToggleUpdater(pedigree, id), id) = pedigree

\* C30 witness: a target and another person have had their sex toggled, with a
\* declaration in the log and a merge in the map
C30_Witness ==
    /\ person1Sex = "F"
    /\ person2Sex = "M"
    /\ pedigree.merges # EmptyMap
    /\ Len(pedigree.definedRelationships) > 0
    /\ \E i \in 1..Len(pedigree.persons) :
            /\ pedigree.persons[i].id \notin {pedigree.targetPair[1], pedigree.targetPair[2]}
            /\ pedigree.persons[i].sex
                    # generateBasePedigree(baseRelationship, person1Sex, person2Sex).persons[i].sex

====
